---- MODULE Spec2Model ----
(***************************************************************************)
(* CPU Babel Generator (src/cpu_babel_generator.py): the seed sampler      *)
(* seed_to_params, the Verilog composer generate_top_level_verilog and the *)
(* lexicon search similarity_search, as state machines over the process    *)
(* state they read and write: the module-level generator of `random`, the  *)
(* string-hash key of the interpreter and the files of the output          *)
(* directory.                                                              *)
(***************************************************************************)
EXTENDS Integers, Sequences, FiniteSets, TLC

VARIABLES
    rng,        \* state of the module-level generator of `random`
    hashseed,   \* string-hash key of the interpreter process
    first,      \* seed -> the DesignPoint its first evaluation returned
    ret,        \* what the last operation returned
    files,      \* output directory: file name -> text written
    generated,  \* (seed, params, filename) of each artifact written from a seed
    input,      \* arguments of the operation a pure-function run applies
    th          \* the concurrent callers: position and locals of each

vars == <<rng, hashseed, first, ret, files, generated, input, th>>

(***************************************************************************)
(* Bounds.                                                                 *)
(***************************************************************************)
NumSeeds == 3        \* seeds of SeedCatalog that calls and candidate lists draw from
NumGenSeeds == 4     \* seeds of SeedCatalog the generation runs draw from
NumHashSeeds == 2    \* string-hash keys the process may have been given
MaxCands == 2        \* longest candidate list of a search between other calls
MaxLimit == 1        \* largest max_results of a search between other calls
SearchMaxCands == 3  \* longest candidate list of a search run on its own
SearchMaxQuery == 2  \* longest query of a search run on its own
SearchMaxLimit == 3  \* largest max_results of a search run on its own
ConcMaxCands == 1    \* longest candidate list of a search run beside another caller

(***************************************************************************)
(* MicroX86Params.                                                         *)
(***************************************************************************)
NUM_REGS_OPTIONS == <<4, 6, 8>>

REG_NAMES == <<"RAX", "RBX", "RCX", "RDX", "R8", "R9", "R10", "R11">>

INSTRUCTIONS ==
    <<"ADD", "SUB", "AND", "OR", "XOR", "INC", "DEC",
      "MOV", "JMP", "CMP", "JE", "JNE", "PUSH", "POP">>

ADDRESSING_MODES == <<1, 2, 3>>

DECODER_TYPES == <<"hardwired", "microcoded">>

PIPELINE_DEPTHS == <<2, 3, 4>>

EXEC_UNITS == <<"single_alu", "separate_agu_alu">>

MEMORY_TYPES == <<"simple", "cached">>

\* word -> the (key, value) items of its constraint dict, in dict order
LEXICON ==
    [cisc |-> << <<"decoder", "microcoded">> >>,
     risc_like |-> << <<"decoder", "hardwired">> >>,
     compact |-> << <<"num_regs", 4>>, <<"addressing_modes", <<1>> >> >>,
     powerful |-> << <<"num_regs", 8>>, <<"addressing_modes", <<1, 2, 3>> >> >>,
     fast_memory |-> << <<"memory", "cached">> >>,
     simple_memory |-> << <<"memory", "simple">> >>,
     deep_pipeline |-> << <<"pipeline_depth", 4>> >>,
     shallow_pipeline |-> << <<"pipeline_depth", 2>> >>]

(***************************************************************************)
(* Seeds.  SeedCatalog lists the seed strings of the model; the first is   *)
(* the empty string, "seed_0" .. "seed_4" are among main's example seeds.  *)
(***************************************************************************)
SeedCatalog ==
    <<"", "seed_40", "seed_6", "seed_62", "seed_0", "seed_1", "seed_2", "seed_3", "seed_4">>

SeedSet(n) == {SeedCatalog[i] : i \in 1..n}

Seeds == SeedSet(NumSeeds)

(***************************************************************************)
(* random.seed(int(hashlib.md5(seed.encode()).hexdigest(), 16)): the       *)
(* generator state the seed string fixes, given as the stream of 32-bit    *)
(* words it yields.  Every draw of this program asks for at most 2 bits,   *)
(* and getrandbits(k) returns the top k bits of one word, so the table     *)
(* keeps the top two bits of each word (values of CPython's MT19937).      *)
(***************************************************************************)
MTStream ==
    [s \in SeedSet(Len(SeedCatalog)) |->
        CASE s = "" -> <<3,3,0,3,2,1,1,0,1,0,1,0,1,2,1,0,1,1,2,3,0,1,3,2,2,0,0,0,3,0,0,1,0,1,1,3,1,3,2,2,2,3,3,1,3,1,2,1>>
          [] s = "seed_40" -> <<0,2,3,2,3,0,0,2,3,1,0,1,2,0,3,1,3,2,1,3,0,0,1,0,0,1,2,3,0,3,2,2,2,0,0,1,0,2,0,3,2,0,0,2,3,3,0,3>>
          [] s = "seed_6" -> <<1,0,3,0,3,0,1,0,3,2,0,3,2,1,2,2,2,1,2,2,0,2,2,1,1,1,1,2,2,3,2,3,3,2,1,3,0,1,0,3,1,1,0,3,0,3,1,1>>
          [] s = "seed_62" -> <<1,3,0,0,0,1,0,0,0,2,0,1,1,3,1,3,0,1,2,0,3,1,3,0,2,3,3,3,0,1,0,0,0,2,3,3,1,2,2,2,3,0,1,3,1,0,3,0>>
          [] s = "seed_0" -> <<0,3,2,0,3,1,0,1,0,3,2,2,0,1,0,1,3,0,2,0,3,2,0,0,0,3,3,3,2,2,3,3,3,1,0,0,3,1,2,2,2,1,2,3,2,1,3,0>>
          [] s = "seed_1" -> <<2,2,2,0,1,1,2,2,0,3,3,3,1,0,2,3,1,3,0,3,2,3,3,3,2,0,3,0,2,0,2,2,1,1,3,0,2,1,0,2,0,3,1,2,2,2,0,2>>
          [] s = "seed_2" -> <<0,1,3,1,2,2,2,0,1,2,3,3,3,0,2,1,2,0,0,3,1,0,1,2,3,3,3,3,3,1,0,0,1,3,2,2,3,2,3,3,0,0,0,0,3,2,2,2>>
          [] s = "seed_3" -> <<3,2,2,2,1,0,0,2,0,3,2,3,3,0,3,3,0,1,1,2,0,0,0,1,0,0,3,1,1,3,2,0,2,0,3,3,2,1,2,0,2,2,1,1,2,0,2,3>>
          [] s = "seed_4" -> <<1,0,0,2,3,3,0,2,1,3,3,2,1,0,1,0,3,1,0,1,0,0,1,2,1,0,3,1,3,1,1,1,0,0,3,1,3,3,2,0,1,3,1,0,3,3,2,0>>]

\* words of the stream the table holds per seed
StreamLen == Len(MTStream[SeedCatalog[1]])

\* each statement of the code is evaluated once: F is applied to the value of v
Bind(v, F(_)) == CHOOSE y \in {F(x) : x \in {v}} : TRUE

\* a generator state: the seed that keyed it and the words consumed since
random_seed_keep(st, seed) == st

random_seed(st, seed) == [key |-> seed, pos |-> 0]

\* top two bits of the next 32-bit word of the stream
MTWord(st) == MTStream[st.key][(st.pos % StreamLen) + 1]

Pow2(k) == IF k = 0 THEN 1 ELSE IF k = 1 THEN 2 ELSE 4

\* getrandbits(k), k <= 2: one word consumed, its top k bits returned
getrandbits(st, k) ==
    [val |-> MTWord(st) \div Pow2(2 - k), st |-> [st EXCEPT !.pos = @ + 1]]

RECURSIVE bit_length(_)
bit_length(n) == IF n = 0 THEN 0 ELSE 1 + bit_length(n \div 2)

\* Random._randbelow_with_getrandbits: draw k bits until the value is < n
RECURSIVE randbelow(_, _)
randbelow(st, n) ==
    Bind(getrandbits(st, bit_length(n)),
         LAMBDA r : IF r.val >= n THEN randbelow(r.st, n) ELSE r)

choice(st, seq) ==
    Bind(randbelow(st, Len(seq)),
         LAMBDA r : [val |-> seq[r.val + 1], st |-> r.st])

randint_from_zero(st, a, b) ==
    Bind(randbelow(st, b + 1 - a),
         LAMBDA r : [val |-> a - 1 + r.val, st |-> r.st])

\* randint(a, b) = randrange(a, b+1) = a + _randbelow(b + 1 - a)
randint(st, a, b) ==
    Bind(randbelow(st, b + 1 - a),
         LAMBDA r : [val |-> a + r.val, st |-> r.st])

\* the pool loop of Random.sample (n <= setsize): k draws without replacement
RECURSIVE sample_loop(_, _, _, _, _, _)
sample_loop(st, pool, n, i, k, result) ==
    IF i = k THEN [val |-> result, st |-> st]
    ELSE Bind(randbelow(st, n - i),
              LAMBDA r : sample_loop(r.st, [pool EXCEPT ![r.val + 1] = pool[n - i]],
                                     n, i + 1, k, Append(result, pool[r.val + 1])))

sample(st, population, k) ==
    sample_loop(st, population, Len(population), 0, k, <<>>)

(***************************************************************************)
(* seed_to_params: reseed the module-level generator, then seven draws in  *)
(* the order the dict literal evaluates them.  Returns the DesignPoint     *)
(* (val) and the generator state it leaves behind (st).                    *)
(***************************************************************************)
MakeParams(nr, am, dt, pd, eu, mt) ==
    [num_regs |-> nr, addressing_modes |-> am, decoder_type |-> dt,
     pipeline_depth |-> pd, exec_units |-> eu, memory_type |-> mt,
     instructions |-> INSTRUCTIONS]

seed_to_params(st, seed) ==
    Bind(choice(random_seed(st, seed), NUM_REGS_OPTIONS), LAMBDA d1 :
    Bind(randint(d1.st, 1, Len(ADDRESSING_MODES)), LAMBDA d2 :
    Bind(sample(d2.st, ADDRESSING_MODES, d2.val), LAMBDA d3 :
    Bind(choice(d3.st, DECODER_TYPES), LAMBDA d4 :
    Bind(choice(d4.st, PIPELINE_DEPTHS), LAMBDA d5 :
    Bind(choice(d5.st, EXEC_UNITS), LAMBDA d6 :
    Bind(choice(d6.st, MEMORY_TYPES), LAMBDA d7 :
        [val |-> MakeParams(d1.val, d3.val, d4.val, d5.val, d6.val, d7.val),
         st |-> d7.st])))))))

(***************************************************************************)
(* str(): the text Python renders for the values this program converts.    *)
(***************************************************************************)
Digit(d) == <<"0", "1", "2", "3", "4", "5", "6", "7", "8", "9">>[d + 1]

RECURSIVE StrInt(_)
StrInt(n) == IF n < 10 THEN Digit(n) ELSE StrInt(n \div 10) \o Digit(n % 10)

Quote(s) == "'" \o s \o "'"

RECURSIVE JoinStr(_, _)
JoinStr(sep, strs) ==
    IF strs = <<>> THEN ""
    ELSE IF Len(strs) = 1 THEN strs[1]
    ELSE strs[1] \o sep \o JoinStr(sep, Tail(strs))

StrIntList(l) == "[" \o JoinStr(", ", [i \in 1..Len(l) |-> StrInt(l[i])]) \o "]"

StrStrList(l) == "[" \o JoinStr(", ", [i \in 1..Len(l) |-> Quote(l[i])]) \o "]"

\* str(params): the dict in insertion order, lists in element order
StrParams(p) ==
    "{'num_regs': " \o StrInt(p.num_regs)
    \o ", 'addressing_modes': " \o StrIntList(p.addressing_modes)
    \o ", 'decoder_type': " \o Quote(p.decoder_type)
    \o ", 'pipeline_depth': " \o StrInt(p.pipeline_depth)
    \o ", 'exec_units': " \o Quote(p.exec_units)
    \o ", 'memory_type': " \o Quote(p.memory_type)
    \o ", 'instructions': " \o StrStrList(p.instructions) \o "}"

\* seq[:n]
PySliceTo(seq, n) ==
    LET m == IF n >= 0 THEN (IF n < Len(seq) THEN n ELSE Len(seq))
             ELSE (IF Len(seq) + n > 0 THEN Len(seq) + n ELSE 0)
    IN  SubSeq(seq, 1, m)

(***************************************************************************)
(* DesignPoints the composer is applied to: every catalog value of each    *)
(* field and one value outside the catalog per field.                      *)
(***************************************************************************)
PointNumRegs == <<4, 6, 8, 16>>

PointModes ==
    << <<1>>, <<2>>, <<3>>, <<1, 2>>, <<1, 3>>, <<2, 1>>, <<2, 3>>, <<3, 1>>,
       <<3, 2>>, <<1, 2, 3>>, <<1, 3, 2>>, <<2, 1, 3>>, <<2, 3, 1>>,
       <<3, 1, 2>>, <<3, 2, 1>> >>

PointDecoders == <<"hardwired", "microcoded", "vliw">>

PointDepths == <<2, 3, 4, 5>>

PointExecUnits == <<"single_alu", "separate_agu_alu", "dual_alu">>

PointMemories == <<"simple", "cached", "dram">>

NumPoints ==
    Len(PointNumRegs) * Len(PointModes) * Len(PointDecoders)
        * Len(PointDepths) * Len(PointExecUnits) * Len(PointMemories)

\* the i-th point, memory_type varying fastest and num_regs slowest
PointAt(i) ==
    LET j == i - 1
        mt == j % Len(PointMemories)
        j1 == j \div Len(PointMemories)
        eu == j1 % Len(PointExecUnits)
        j2 == j1 \div Len(PointExecUnits)
        pd == j2 % Len(PointDepths)
        j3 == j2 \div Len(PointDepths)
        dt == j3 % Len(PointDecoders)
        j4 == j3 \div Len(PointDecoders)
        am == j4 % Len(PointModes)
        nr == j4 \div Len(PointModes)
    IN  MakeParams(PointNumRegs[nr + 1], PointModes[am + 1], PointDecoders[dt + 1],
                   PointDepths[pd + 1], PointExecUnits[eu + 1], PointMemories[mt + 1])

Points == {PointAt(i) : i \in 1..NumPoints}

SeqToSet(seq) == {seq[i] : i \in 1..Len(seq)}

InCatalog(p) ==
    /\ p.num_regs \in SeqToSet(NUM_REGS_OPTIONS)
    /\ p.decoder_type \in SeqToSet(DECODER_TYPES)
    /\ p.pipeline_depth \in SeqToSet(PIPELINE_DEPTHS)
    /\ p.exec_units \in SeqToSet(EXEC_UNITS)
    /\ p.memory_type \in SeqToSet(MEMORY_TYPES)

(***************************************************************************)
(* hashlib.md5(text.encode()).hexdigest()[:8] for the texts str(params)    *)
(* of the points above: Md5Table[i] is the digest prefix of                *)
(* StrParams(PointAt(i)).                                                  *)
(***************************************************************************)
Md5Table ==
    <<"1140ce80", "0e2db48a", "9250717d", "d6229ce0", "5d312441", "616a8809", "a6a5e1f7", "8272888e",
      "c85677cd", "eb20538d", "87fdb8cf", "fe46ece8", "ae89e1c4", "f72f47cf", "b98e2143", "0ae59883",
      "01e6af88", "5c86168f", "971fa14c", "4cc1939a", "a9fcd30e", "96df73b3", "4151c609", "47c82dd5",
      "8d11cd90", "1bdb0132", "079251d1", "d69763f8", "941c7d77", "6c19d2e5", "8becbb65", "3badf85f",
      "63404f20", "6ca14a99", "f586cfa0", "8d6806d3", "4a489a93", "5ec681a2", "068b5e61", "3eb9de07",
      "eaeab2c7", "63fb7178", "33f2c4cf", "ae196ac7", "98b7c2e4", "6ea34506", "103ed029", "1285584a",
      "9e5ddd53", "c784ac1f", "33d7777f", "1b84414d", "20ef8a33", "4156164a", "c0ee8a96", "7504e211",
      "c044cf1e", "475aa305", "bb7d79c7", "44dcef01", "5afca19a", "643c7c02", "685a0fc7", "c6543e4c",
      "2c0903c6", "14048aa5", "be16ee2f", "433e6a80", "20d1e86a", "b6bbe147", "4675bb11", "e700d9d6",
      "8e1d5f6a", "e76f8650", "2b57e289", "881731ed", "7e17e6b4", "fdc72a83", "fc5c8606", "e32487f5",
      "9c522649", "f7a4844d", "37b20931", "f58a9407", "0601178e", "70e8c4a3", "81e0386c", "6a5178ea",
      "e656a784", "ce8ce7bc", "04bb760e", "4a6cc6b1", "6c55e4a9", "a94bb919", "cf2933d4", "d39ccf04",
      "fb0c9d4c", "aa8a2e8d", "4f394be2", "9912960a", "325af384", "cb51469b", "b826a2f4", "e5c577ff",
      "eab9c096", "7d9af8b2", "e079fb16", "9ed2f538", "96811fba", "8ec5ff12", "cc211819", "840508be",
      "5b0cd603", "b797db1d", "513694d6", "40a0c8ea", "b23a1e29", "6d34d3cc", "11108e34", "3cd3b5bc",
      "b20f4d42", "061c9a8d", "3fb8b0e9", "a8d3ca80", "35cbb173", "6a6f89a4", "a0b7efdd", "591d5b24",
      "0fc21b10", "9e379fe6", "2679498f", "6f11f1f2", "a5d32baf", "5088c6e2", "5bf2563c", "d73e2779",
      "415509da", "cb9aadbd", "1c327c78", "f205afac", "7695733e", "159d9e25", "9062ab52", "86dc06ab",
      "983d07a3", "c4e89c5f", "4d4c205e", "1844c657", "df4ee607", "12aea11f", "ec8103ee", "6a5aa3fe",
      "49d72293", "8a675521", "79427728", "47b57c05", "7ec62614", "c95aa478", "24ab5dc7", "810a71c1",
      "737d64ac", "b8eff021", "5f65acfb", "2bd78f23", "63b0579f", "4a9a750e", "c7fcff37", "3529da7f",
      "21ba16fe", "8b4b1983", "3921fe11", "37ac4929", "7d8d363d", "d541bc6b", "5d89a26f", "a44d534c",
      "7dc2e9bb", "49143289", "f519673f", "584ea073", "f3fc83f5", "2fed72cf", "b53ac00c", "2a31314a",
      "61c26d99", "3a2ca9dd", "459d7634", "d5a7e16d", "45744900", "73a66832", "c19007d2", "60cd76ad",
      "13a7cf67", "81cef3d9", "2019f05c", "bb8d0ef4", "fce785f5", "c5950ada", "f6aa2015", "ddbcc665",
      "1e805cbd", "03b797cb", "a268d8dc", "51fc9e33", "f15658cd", "cb03b3e3", "715aee6f", "43797b51",
      "26e76453", "653f538e", "181b7175", "33b7d9bc", "f0350996", "f0dcefd6", "bf2cbdf8", "6d8f8876",
      "34772622", "5b24c667", "98c8ec4f", "b311c453", "6f1fd1b1", "3f8ec7fb", "466c40b5", "7f68bea0",
      "361c55b1", "d35b7114", "11c7ccd6", "d5e46790", "b573ac55", "f7e6bf15", "a1ce2e34", "61bbdb82",
      "e130619b", "c313a079", "094d4d9f", "b83e4f78", "a5c51c7d", "dd864949", "6fa09804", "515f564f",
      "655af261", "89715a53", "bb4f9710", "d77f984b", "914ce14f", "058114e2", "62693124", "1430356d",
      "8a7b3396", "b6bd0e36", "1861535f", "3046ac3b", "836d9fe2", "74353cdd", "78c93aeb", "b529c913",
      "b0a85374", "3c8b07cb", "a46573e9", "975f7258", "7c8f9d8c", "95849d15", "aceb39ee", "a4efc8a0",
      "a3258c56", "c951aea9", "4a5f3509", "608b39d9", "80fad6b7", "a825f16f", "51713550", "b9be0629",
      "01621e13", "0d121138", "9e194b8a", "c527cb49", "07c5f234", "b38ca6a3", "d0c0441d", "a8ebc9f7",
      "e5343611", "93055572", "f960f569", "3adea6d8", "7fc2070d", "96d18f1b", "be14cb79", "fa012c32",
      "387586ef", "733cf124", "0e9afacb", "fb766e49", "fb968b9a", "54d8e555", "58b4fa87", "ee1c9f57",
      "893b90c2", "0a6bb6af", "9416861a", "9163820e", "4d430d78", "e5fc9d44", "f4d5553c", "c5d971d7",
      "c699f299", "54e3d26b", "1bb69977", "5126146a", "8d0f4dc4", "dbc4f733", "df5265fb", "195dea78",
      "aabb455e", "8e8b7866", "c7bf3ec1", "18f77b26", "ad21efbb", "fbaef294", "9699b4e8", "85c93eb9",
      "ab9a840d", "996602af", "fcfc91d8", "c8f8906e", "42c9cac3", "0cad40b5", "2fc62db7", "1cce1426",
      "e96be575", "4e70df71", "e6226bcd", "01584666", "f51a151c", "abd7d591", "bdd4b224", "a936a719",
      "e1818535", "470cea64", "791677f3", "b795c30d", "a22b1c8d", "f2be57c8", "a4c1d429", "e66e15ce",
      "8b835aa6", "3b92dcee", "ba000193", "69e4e7b3", "1e5851ae", "9bce8805", "00a81daf", "808fc44f",
      "3b7282e7", "a174ee38", "ecf0ffdc", "d5b8259d", "458d868d", "47a18d44", "66f9f89d", "ee6fbab7",
      "526322e9", "749e68ed", "5cac4368", "b039ad7f", "bcd96c39", "2071c47f", "6e492e23", "24ca75b4",
      "cb72cdbb", "e9174e2c", "adbb5481", "063c2b29", "01fd930c", "1aca4f53", "4b54402a", "4d93c261",
      "d91f1b20", "2db9b0a2", "edc7b1b8", "d14b2d4f", "4cfd0e2b", "d5170414", "8e2c2954", "2a4f4764",
      "566d36b9", "d87ed484", "bf7f2273", "a48c645e", "d8e67ac7", "f930eeb2", "1ddbc9fd", "35f04767",
      "5c66d6a3", "498ee543", "f65b08da", "1f7cce4c", "8bd0c0c2", "4791fe7b", "6384969d", "3d69af1e",
      "c5b61d68", "b93528a9", "5ff54db5", "dd723b65", "b83197e7", "55f5e9d0", "47294366", "a5ba160c",
      "06be5de5", "a1400b6e", "45f4735e", "0bd91322", "b5698baa", "3c495132", "151d3c5d", "b2137ee5",
      "d8b5a594", "f0b1eb16", "d43ff992", "904ae711", "f1916b75", "06ff4091", "81ff9f98", "a61f4cc5",
      "a4081e51", "351e27a1", "3c44eace", "59e1ca75", "0660358e", "8b03db09", "6641c932", "81e462aa",
      "eb231d0b", "cb771200", "52768d6f", "cc0eb3a4", "12da2d8d", "c9cf225e", "275db5fe", "3be6b6d2",
      "3ee53319", "857887fb", "f279903e", "8f6076eb", "598a88ec", "26a56394", "115cd414", "4ef9c983",
      "bf4a9e81", "90f8dcee", "17c31dea", "6e0c55f6", "9173195a", "7ae1df7f", "1f687914", "89806e7a",
      "26862ed6", "4e0e8006", "566f6dcc", "beec16e6", "247ccf6d", "56207d6f", "572a426e", "f30c26c4",
      "62717fc0", "ac6ba81f", "a5a3cca0", "5dcabe37", "0e944fc0", "924e5e89", "a6f0d3c9", "8ffb7cfa",
      "14016ce3", "c91534fb", "ee235558", "4fef7e6b", "86e35aa8", "da19f757", "2fe4b74d", "a80df848",
      "8c5914f3", "8b5bbcd1", "784b501b", "f91f4270", "990bb2b9", "fa7372b7", "1d52a33a", "af5863a8",
      "f485a2c1", "d03ba5ee", "21472dea", "857a56c0", "c857afc2", "53d1300f", "1d1f00e1", "87fe5d0b",
      "0a1306b2", "5010dce1", "69750021", "caeab1bc", "1613a45c", "643bfe6c", "efe1407f", "64575665",
      "b1246f0a", "8c6090a0", "714a1429", "38503f17", "65b2768b", "dd24e823", "ce6f312a", "21137a7b",
      "dda75f88", "f0c06dba", "7349a4a4", "8277164b", "cd10bb99", "0a2f6a69", "1d0aa228", "2b432c87",
      "3e1447e9", "18b38cc8", "a71eb5fd", "f9b90b19", "58a546fb", "65bccfb7", "24f5910c", "6400c19a",
      "e324d66d", "4ea3645f", "e3617381", "0f6c5d50", "5aced6e2", "631616f7", "adda4fab", "8a916a5e",
      "8d0e23b0", "e10a68b8", "66445785", "2301b951", "3990bca4", "96a1a4ce", "93fcbf24", "135632e4",
      "5e8627b6", "994c6954", "a779e20b", "8bb4235e", "975eb363", "ce6cfef3", "21152767", "602a3344",
      "30b6f696", "3ffb46a2", "6cc82b90", "f190642f", "a26dc5d8", "c483272f", "98144c41", "0de8baaf",
      "e297b2a0", "2747b4fc", "ca3a04eb", "67e1fb7e", "9eb7f7a7", "c3817c91", "0cd155c5", "3349ab99",
      "2d96960c", "791aa2fd", "7093f16e", "32b2e8ca", "7b06d5ee", "d7eca54f", "37797190", "80ca6526",
      "549aa4fa", "38e45330", "3f28c682", "adb7a21d", "8c9976ee", "277a265a", "097d387e", "992cdcec",
      "ded66cdd", "04182069", "c75f2675", "e61a519f", "487c410a", "3bec14ce", "a878b4ea", "d0668850",
      "85e0d0c1", "8678919f", "bebd5d28", "4b0d663a", "9bfffec8", "965f9f55", "5f2fb2a8", "f9911e26",
      "9fae2ef8", "07fcaa59", "f625ab97", "8239842d", "68cae8eb", "e5fea6cc", "28fef9bf", "d7130cb1",
      "4b01d58e", "1244fac4", "02d3452d", "1dbcefd6", "ddd91110", "c61fe577", "97352f03", "576174a2",
      "778e4c76", "2bb8083f", "6f3706d6", "c8227fdc", "df4c829d", "08a49e1b", "2e7947bf", "552ce325",
      "f16a0dbd", "737b5c06", "faca291c", "621fd941", "e0524da4", "30df8633", "5c909f08", "40cf1c95",
      "48a9373b", "b5efb672", "aee13a89", "945e413f", "f470e8a3", "19e51c8c", "07b8931e", "2268c20d",
      "b76900aa", "535645e0", "b9d10628", "2baca135", "9b58b244", "cf7e6a75", "00d84206", "1c127cec",
      "e860ff3b", "0bf0d567", "86fd31de", "c0dbb468", "fb0db6af", "2fab4028", "1fc67108", "71758c38",
      "1f8216a6", "bf33507d", "8721e0e5", "49c94147", "ed5e46ee", "12991b7a", "628791cf", "14e3e336",
      "9c632cf4", "1b7ba4a9", "639ccfbd", "5e34c47f", "a4dc59c2", "f3123ec6", "4c5901ec", "64b9987b",
      "f766fbda", "9f363ee5", "d5ef5079", "4663280d", "fb614c27", "26688d0b", "c9811710", "374542e5",
      "c10226da", "b1d2f6e2", "8199ba5f", "96209826", "e99581d0", "3793a1a6", "58abd8ac", "209ae717",
      "32141456", "00a8a796", "47039c82", "18751bcc", "6283f997", "45cc63c5", "48abed42", "0186f583",
      "472355dd", "7d6e8040", "aa178181", "15261c22", "6f7ead49", "f40ac8ae", "e479f1bc", "5607cebf",
      "f58f9f05", "47148ab1", "e62fbc57", "2e0c99ef", "38803211", "5787df5b", "b244c265", "e68834da",
      "42b742d9", "c7e83f24", "5f6cce6d", "a24a4c29", "08260972", "86e546fe", "a0d9fcd1", "351b761e",
      "2afd790c", "39783761", "17cacd67", "ae29df06", "1df2ebd2", "e1cd1978", "bff4288a", "454b4cdf",
      "63cefb03", "d6fccded", "afc52e07", "0e50f95e", "8b90f49b", "2a39ec4b", "f1650bc9", "adf9b1fb",
      "ffa18ad1", "ee849c88", "fbb6147b", "5fdb0467", "c8e2c47c", "87987b8e", "46987cad", "9af0153d",
      "83c6d110", "78aff052", "97071110", "ba49b3b4", "ed505acc", "ee76cac6", "03ca4e0d", "06bf3f38",
      "1ba89e2e", "8c8775de", "0ae09ada", "07934ec0", "9aee0f1f", "591542c2", "3516c752", "6c72b419",
      "cb5ac48f", "e1d9d4f7", "45377d16", "59fcf4d4", "93e5975e", "e9c623be", "e0e76430", "19e16fc7",
      "4aecf7fa", "b4f12878", "261b229a", "ff666f58", "e4c422aa", "f13defc1", "d4ed25bc", "fb1eb92b",
      "49746d48", "62cdebd2", "f276dd33", "c6e29ab3", "04d9fecd", "86e9c4a3", "03195181", "2f9b635e",
      "a86850d2", "2ace2480", "15b345ca", "5d7ac548", "aff551e0", "34375422", "3842aca9", "a66aab87",
      "121979a2", "1804ea24", "eb7c1611", "11e1dcd0", "c8477d9a", "bda45167", "69b58ba0", "9397c312",
      "7834efb4", "09d54d6c", "6fdf2d80", "79816410", "43fa2857", "ecbc8b4e", "92517e68", "da8041cf",
      "fb1510af", "679d90f2", "4c5be95f", "e9b014c2", "035f4283", "7a206763", "53796d9b", "533e7d9a",
      "3bfdd7b4", "a9b13519", "e14e9eba", "08b33c94", "16967c69", "bf49c23d", "bb36c1c3", "348cd9e3",
      "8c3f7838", "c88114a6", "c6ba23ef", "6ecec04c", "9011a85b", "3405edc2", "1cb5c9ec", "a961499b",
      "09c63c19", "9ae8bb78", "edbbbd06", "27a9bd79", "17100267", "acdbe64b", "563937de", "12f8be18",
      "726e7d11", "391edd76", "ab62867e", "a10ddf89", "6c43059e", "1ade83e8", "19ac6998", "8e1afc85",
      "23886dff", "3d78da94", "b5d1e759", "73a29c3f", "839e2e1e", "6570b404", "b8fcef06", "bcf1874b",
      "6f137013", "7d3ce42d", "34046906", "fd7bd179", "6226dfbe", "1c025f51", "091ebd2a", "a2fd6d43",
      "c1c89758", "885e7380", "2cf7a557", "d3027e2a", "bb71bcac", "0426ee07", "60d6c7b1", "9459a6a6",
      "62b36aed", "f2a00430", "d0870c30", "4f08e5b9", "20d5546c", "f070b2f2", "774f2a37", "8c51e525",
      "99c9e681", "df383202", "8259005d", "5ae5600f", "d88028a2", "27517a5f", "62c8b96c", "aa5c478d",
      "d23faac4", "c6b8ae0b", "fcdab1d4", "1bd3ae93", "a2d2c342", "b1d3519e", "22fab6a7", "3c44afb3",
      "ba368dfe", "3dbafd33", "e0fb2b89", "b6582b3b", "3e622494", "e42cad35", "e40ea9e2", "79b4503c",
      "00940459", "e965bfb9", "bd53fc6e", "37598de8", "c36751de", "b005f0ac", "75d9b330", "0c034172",
      "11ab5f86", "12c1e62d", "557b4544", "ee642617", "4b3b6141", "b5c40a3b", "21819ac4", "e3ca3460",
      "fadb229d", "f804f8e8", "8ea6a059", "ed92a208", "9f76384d", "65d5c5f1", "76851ab5", "fe975630",
      "0b2d2bcc", "aba0ca06", "bfe4a895", "450e3bce", "9f0d3a47", "05f36997", "fa5d0888", "369e4083",
      "df70daef", "4129d7a2", "420092b9", "8fd2a516", "e4547efa", "e61ed02c", "84106462", "b3dee111",
      "aacce289", "293a6e52", "f0c67310", "0de2dae9", "ebd21f73", "8b703327", "a9162de3", "93270fed",
      "1ee0fdf1", "ef92a939", "26643eb3", "34f6c747", "a047bb81", "f0cad931", "89832ac7", "323d16dd",
      "0eff86b0", "c789e6ee", "88150084", "d8d3aa62", "83a7b2d4", "7d795413", "b7c9c3c9", "67d21a47",
      "d3cf7584", "3872ccac", "ab790205", "94370712", "e8fb1191", "2746a674", "9d8905a8", "6fdc7a16",
      "85b2a0e6", "0cba5146", "17345e85", "feea5fb5", "2b7a2055", "3f11f634", "95b5e89d", "3000a0a1",
      "00d29178", "459429a3", "d503d16e", "d5cf83ce", "4d8647cb", "9bcf0bdb", "45862cd8", "20c582fc",
      "2aee93db", "01263121", "4ac68972", "1609a269", "f1be42a0", "2f75ce90", "93a7e437", "b99bec62",
      "c10064dd", "4b9003f4", "44f33503", "4f7c2764", "caf674fd", "f126d78d", "079e80f3", "c8e48bff",
      "4e9d1669", "88f208dd", "8cdf95f5", "c15677af", "f6db5e3c", "ad2e2b67", "4ddb81de", "f4fdc433",
      "66a041ab", "6a6d53fd", "65132b42", "b3da4586", "8d1df530", "a075a25f", "c1d32859", "c7422c0e",
      "1368ef4d", "3fd85577", "8facd8e0", "b7e44758", "0d15c48d", "ccb93d60", "03a76bf2", "5aabbf52",
      "865ec70a", "4450c479", "fc344ebc", "9dbefddf", "1946d2f1", "64e0f888", "58da3ca1", "34f101c5",
      "87886d47", "bdb57136", "469803b6", "83ea56f3", "036abca6", "ba8f7c52", "889b69e0", "0549e32b",
      "b74dd938", "96188d7e", "177a0453", "fae5308a", "35b02337", "cf4c555c", "d4ab3bee", "93c8d2e7",
      "6ba164dc", "1d38b04a", "df3cfb1c", "30338cc9", "ec0ff6d3", "e8c00a01", "e058b672", "65e61616",
      "6286bc99", "72de165f", "82b5575f", "2e049cb3", "3798c9fd", "dc05461a", "44dd84cc", "f64f2b0c",
      "31aa86d2", "dfc372cc", "33cb1ac0", "8a80409f", "ccf89f19", "5393b94c", "04fa045e", "13ac8098",
      "0d203947", "e75f5dd0", "becea295", "1f590f6c", "d6195003", "ca82b1a6", "37648802", "29be0904",
      "092445fa", "75305dca", "bd36f99f", "7a09ccf7", "2dd06cef", "b5cdd561", "165737a6", "45102396",
      "811c69cd", "a7afed8b", "4a9b3ab8", "d48e3b59", "24d108eb", "62f91f04", "6695439b", "7352789a",
      "21f3daad", "f0b1c2d6", "1dd800f9", "6dcd8499", "922cdf49", "e0e397cf", "edfb909d", "f5aea9da",
      "da496f60", "98f16472", "9793b8dc", "295b3325", "e9bad5c1", "ec120df3", "65be43ac", "03b69ba5",
      "3687597b", "0f07bfba", "f82c7a76", "526a7fbc", "73a7139b", "85109c75", "a8f8d818", "1dc2b03a",
      "2dec05c1", "7a765e0f", "f6226879", "94b267a1", "1d540444", "4bc7868d", "0f100ff3", "42617ade",
      "4d560520", "b5f872d2", "e3881adb", "20b0707e", "8c653f3c", "469f74d6", "1fe0837e", "640c7d91",
      "ffa030ed", "3f5b7617", "03866196", "fc0a7150", "623b66b8", "cecd0833", "f6504e1d", "62d55396",
      "c8822bad", "5841b703", "2b1e45dd", "6079c68b", "433a3076", "76ec01e0", "0a65da59", "2363ac08",
      "d3d5694b", "711f36e5", "3f624c6a", "e598311b", "0bedcd4b", "90712904", "07ed7a87", "9bcf69f2",
      "597f67a5", "c4a1fe11", "95dda891", "aff2329d", "b195820a", "0bb0b132", "9caa8351", "ce161552",
      "20b5d909", "f3ad9bf1", "36420319", "f9bc0100", "93105cdf", "671996d8", "154b6b3a", "47e42a7e",
      "a9a2ec1f", "069c8fb8", "a10b8502", "f0b88346", "5fbe44ba", "08df85bd", "6041e531", "2ca14ebb",
      "62aa98e2", "55885a79", "5d29adec", "d93d9123", "eac73e2f", "6a221363", "19234ec0", "30d20919",
      "280e81c7", "9b1b1c23", "22114cbd", "824e4f99", "54094a3b", "51897a42", "64dea440", "37c5b343",
      "b18bb037", "ba42397d", "c8d1acec", "d086c93b", "7b9fef98", "ddc71dfd", "0200925c", "0c3fc1e8",
      "d18ff48f", "7b00088e", "e6ccf3cd", "12e0c0ff", "b88e7c6a", "297046ae", "b5c78ae8", "c2078ac4",
      "cee4dd42", "f2a22225", "39347d9a", "a84e95a4", "a75f2c2b", "05407bcf", "60b6edb1", "f36bb9a0",
      "97c2cc03", "d27323af", "4cae197e", "7df77ff8", "8d1ada55", "c182f54d", "c5d9c7bc", "69a9171f",
      "b8832249", "5c53235f", "acd3758f", "5059850b", "8e75c552", "01b51fdd", "51b3e313", "2a5560d4",
      "7eaf54ad", "47ddaab4", "3ecf9220", "60b0eb78", "07df268a", "9dfdb0d3", "fba6ee01", "bd98ff31",
      "14b9179a", "610f3d3c", "a3e138b3", "b02b607e", "6b5e985e", "b3a830fe", "632941b9", "b5a9ecdf",
      "882c727f", "3fc06a60", "853da371", "e88ed871", "d6390bfd", "9c62a598", "0dac5bee", "901a505d",
      "56ee1d96", "bd6a03ce", "9ed03683", "7cff71a6", "8ffbdee4", "15cc1aa8", "853d58c1", "2c93f886",
      "fca3c636", "d638d617", "857da0ef", "d047ac64", "638c7e0e", "36f57ce8", "570c8eca", "b4cc2927",
      "429d4f31", "6b86698d", "36a5fa11", "5769acf6", "cfb7ad07", "fdb1caa3", "3e4908b3", "ad986f8c",
      "38247477", "a4613005", "17a16987", "731185ca", "1bc148bc", "460ec77b", "4a1166fb", "2a097997",
      "411e626e", "25f906ac", "e6e5f5b0", "9e1a59e6", "00b5fdf4", "c3a8f32d", "e6cfd9c4", "d35ead31",
      "f73bddea", "b3a36729", "b78ef3d8", "c00043b0", "b8097929", "4ce237c2", "6e2c823b", "8e50b379",
      "0291f435", "74f1e30e", "488aa0bd", "679df1c7", "997a4a24", "446e273e", "31dfa463", "9522ef43",
      "7afefd50", "b2c58668", "c113f585", "db540e56", "7b1fb107", "7d66f8d5", "9e86ae96", "fa07b60e",
      "3f0d5c34", "99dd01f1", "22080ec9", "f5bb80cc", "6dbe1151", "f0ff43f0", "fc459f02", "181a869a",
      "94f17891", "ae05b8f3", "68b6d476", "f2fbeffd", "b8150645", "5c45e304", "37634c97", "997fd593",
      "ad75c79d", "14ad478b", "51a07a8d", "eea84f94", "d23fb5e2", "d2b10f81", "34df59bb", "5983375f",
      "12cf577e", "064a1908", "050b5bd3", "f662bcfc", "3e5818a1", "85e8985f", "122cd071", "89b28481",
      "fc022209", "2bf29c08", "9efeb416", "5a498e20", "547b8671", "50a6e106", "a4d67185", "a12def03",
      "ea1a8138", "b8eff870", "de22a9ec", "a4845d32", "67078c45", "bab3d53e", "5e952404", "2ee01c3c",
      "048f3f4a", "894edc7b", "e17feff6", "469a86ac", "5c2cb832", "b4a74246", "912f8f5f", "45d5d4a7",
      "4efb5b00", "feb2fcc4", "9999be94", "21bd777a", "75616f2a", "4f9bf1c7", "5b5f513b", "6413023c",
      "5c66ed87", "a728cf8f", "0ce14d66", "29697f49", "b7a8f559", "07a9e258", "ab1b696c", "c343c2ed",
      "7aca5367", "5130e5e3", "78d342bb", "8c421f4b", "8eedb090", "1188b0a2", "f2d2310c", "46c4bcde",
      "05a5de27", "e365a15b", "8e37c9d1", "161540df", "3adfa16c", "e9e42fee", "c5b0c9a2", "66b7816e",
      "d3a7992d", "557980c9", "e227384e", "176e636a", "09201f35", "089e52b1", "0ca36f9a", "d21fb538",
      "2b4ad55d", "73a9707c", "fc141c4d", "6d66ee2f", "c80980e2", "56cc5192", "b373da46", "7fdec29c",
      "013742c2", "b08534ae", "ac0acac6", "0ee0200e", "d23b66f0", "00f16eab", "bbdd7dc5", "7057d2e4",
      "0069860b", "21865129", "0250acb9", "3c861556", "df2bf684", "1fc8fa10", "d99ad9fc", "7215fd06",
      "156e5897", "7f897a1e", "7f4ed832", "7bdc233d", "a788f9dc", "2192f97f", "ed7776e1", "e570338a",
      "a7e89ca4", "46f65e3b", "80cd1aa1", "cce49224", "06faacc8", "ac8eaa98", "44b6dfef", "a161b774",
      "f4699c48", "678ed53a", "93e01dc4", "ca30f5ae", "96f7cb1b", "de78b427", "907f250a", "721698d2",
      "c580e886", "d7cd914a", "ce996f59", "4d679147", "35e5b232", "418d20bf", "29170e2b", "15d3d53c",
      "acebb0db", "f2980a62", "b744dfca", "b5e7c057", "ddb41587", "09e070d2", "fb74ccd1", "6c66ab4a",
      "35ff2c33", "b8c69c16", "bcd88002", "4456e505", "af50a85f", "e20c98e1", "64caf99c", "29ee6631",
      "63d2dc1f", "d3f5d0f3", "6e632039", "7cca2eb2", "395f5693", "ec97f250", "7a376396", "d81d0396",
      "8589ffb8", "ad8a50f1", "49f30435", "95f8d767", "e48b5da5", "da256221", "f849b37e", "10b269ca",
      "9dd5eb9f", "a484450b", "1f46e4f1", "2cd568f4", "ef820a4b", "cc84d5ac", "4e4e443f", "5f73b85b",
      "367de43f", "f1a2c0b3", "7c6c4d26", "fbdc1d0d", "78861d44", "d797cb11", "f5851f23", "8631758d",
      "cd3f36d2", "8ef402e3", "8c73c869", "c1f73d37", "e29e0143", "1582a810", "2d0e0cac", "13dc7e67",
      "1429ac68", "9fd8f919", "d3e48bab", "adb06880", "59b2d0fb", "9922ebb8", "978e66de", "35a9b445",
      "c9a81b6f", "0e44fcb4", "87492f7e", "d00e1869", "32d25f99", "c0e7df0d", "e7c5048b", "61a64fc1",
      "30e493ea", "b8e3552e", "1eb87170", "a8a3de67", "b98ebb3e", "086c0ee7", "10f60a83", "11acdb14",
      "a31a533c", "082cbe66", "281a9cba", "3086d35a", "073c6b55", "398009ac", "7b4eebb5", "3ee22d93",
      "cdd2ad2f", "29a94c84", "d2a178d0", "fc8d8dca", "b84a7327", "a5b9a201", "fbfc72ef", "98065d6f",
      "c401b5f0", "a9f7fccf", "f06b4b39", "0aa21469", "fa7c59b0", "a97e22b6", "1bc0ee9d", "83255ea8",
      "b451758b", "5675d3b3", "bf9a0e78", "97f1d586", "69d6fc99", "16a6da0a", "12898699", "f71b9f86",
      "3f199012", "6303df5d", "793badfb", "284d3393", "9c5aa828", "d4f717c9", "6d0f6196", "c5b390d1",
      "51973b03", "5facba7e", "430066d2", "dfb74c0e", "a237079e", "d0e229c8", "c8515e01", "c068e622",
      "1faf7e68", "335ab76d", "7d2e0211", "109fef5c", "cc095837", "f91243e8", "f362d4b9", "5870a95b",
      "ecc6c2aa", "2cfe35ea", "2d9e761e", "97b7ec4f", "7a8e962d", "4d32bef9", "8bdf7c8b", "6b1e3f69",
      "144c7e95", "c3b94647", "ce267ea6", "12c3711a", "4e7790e8", "fbbbab61", "61f393bb", "f835ed5a",
      "f35d7528", "71928efa", "00254556", "baecc278", "5a98b06f", "ff51042f", "e9d9b215", "cfee1239",
      "b5b91f91", "c6064a3a", "cd4044b6", "1eb91348", "774fd3f0", "0ca3604e", "2ef5293b", "41db0291",
      "11e90f64", "c0bef9bb", "5574b66c", "0f2a6cfd", "1cdc7be4", "26859b23", "20dc1aa8", "e882611c",
      "dd059df7", "7644cfe0", "291e5610", "06feb4ee", "fc091e64", "df6eb66e", "88402f6c", "450c9345",
      "89672d50", "d25383fa", "ceb7eea2", "66136533", "f4a34271", "bc547f1a", "50a52fd0", "cc39d6de",
      "d455e6f8", "582df647", "42f2c220", "53a5f3a2", "26b06f14", "446f589d", "8267204b", "4756fb19",
      "c82ea05e", "c33ea16e", "132af2f9", "507887df", "ac545e2f", "9d182dcf", "afe0e190", "0cc6f70d",
      "56ee65c8", "abc2a2fd", "ca182574", "6221256c", "96836211", "aacca174", "9398fa47", "1f8c5bde",
      "d82e0c8f", "4c177e05", "018f7e87", "09fa2cc4", "2a892255", "04b95caa", "f8192f4c", "cfc61f47",
      "119b2c58", "54c51289", "2c591a90", "836191b6", "480bde29", "d2058d17", "12a44431", "58d9ecef",
      "318714d0", "74094249", "a612b191", "bb276776", "2cad856a", "4b13a6cd", "5910f739", "3c5af43c",
      "61de6008", "caf32363", "effdead2", "ef095c5b", "0fc40f07", "3e2ddaf5", "bdfd8ba7", "1f9f925b",
      "919afbab", "35c3d1d9", "f48db456", "2b57b3d9", "e0969077", "84d7b302", "ef156dc9", "4dc4fe9b",
      "c56ca9c4", "4ffec533", "7a5bff7a", "3aeecbcc", "aa1b8a1c", "04cf60ea", "9e4d2698", "661d0579",
      "9cc75d32", "162d69d7", "c7bd3696", "8daca387", "08d6730b", "be21c388", "eecf3617", "0fb21721",
      "621aa335", "4f64750a", "d169a7c8", "05cd145a", "6261b94c", "34a7bda7", "8a99ca1e", "e3fa3b5b",
      "da2a917a", "6c0abc8a", "c0bed619", "f0728eb2", "ab0bf6de", "1ad30f9e", "2554604f", "332b7f95",
      "145ed3da", "cd560f21", "8bd52f51", "d98ba257", "33731e9f", "05122cd4", "0b49cb7b", "13ba7e64",
      "cff70bab", "4ff768d3", "c4f2156c", "70c7fd20", "0eb35313", "a6520de6", "2852ee20", "2377484a",
      "5c98ac7d", "06c06a65", "e5115b38", "be71adba", "52a58e07", "68c2e6c3", "bbd85073", "381ebded",
      "497c2344", "c249aec5", "9ebbe511", "209f1ec4", "48558f6e", "cc0bd0f0", "c0431bbc", "6f6118a8",
      "5e82b229", "0a6f6bf8", "31760f11", "63c71ea9", "33956cc3", "5a9debcd", "344a54bd", "d49391e4",
      "9c88bad9", "ae6a3dc3", "4cbce8b8", "8605fec0", "65cdfe2c", "aa6815bf", "b6040ef2", "59fb5f3e",
      "1192999e", "e128ddc5", "11418a52", "39df707c", "0972724b", "42aa2d6c", "0f953a01", "9f215ecc",
      "2bdcf517", "87f3fde1", "274eeb47", "150b9331", "0a652cf6", "709808a2", "5d1ecbe2", "d4f56ca1",
      "fa2502ad", "42185662", "e833f4b2", "bc52d265", "9a7c0930", "dc362863", "03221df3", "2df21c49",
      "e450f1d3", "dc6f5491", "2b4e7cfc", "abdd8a0e", "33d2ff4a", "a5a4607f", "602e50eb", "4f8138df",
      "773763dd", "58ce5f6c", "e79d5e12", "ba7520f4", "15fe6921", "e0cc3a7d", "f6ded96f", "03c32b95",
      "b6c2ca93", "8ce90dc1", "25dd24f7", "5a925d96", "2ee106c7", "ac190f15", "cc55a190", "018d6fe7",
      "5bbce8f5", "c8a26fd7", "c33baaa3", "680af9d6", "512de657", "72fab0e0", "283a54d3", "2da9239b",
      "c8c5f136", "aa07f64d", "006cdc02", "3b78a049", "51aec75b", "16ee19cf", "96972e44", "52a18fc2",
      "7e0d6f51", "7870a3b2", "d7cb6390", "f027acf6", "e01a9001", "7accf77b", "41571bd9", "a68af875",
      "e6dfc8e1", "4d7bec9c", "5d4fb5b8", "5bd6a2d9", "b57687ef", "52554e26", "809beb48", "4af0acad",
      "31693395", "25722dd0", "b4f5415c", "ad6830ce", "0409e1c3", "1286dfdc", "ca082359", "ff322185",
      "1216ebef", "295c3007", "feecead6", "fd13204a", "79be8f69", "e6100b8c", "0558ed45", "57b5f6df",
      "19feeabb", "5185a89a", "0c3e79c6", "daded783", "c70e092e", "7e3f333c", "6782930c", "b7381adb",
      "54ac53bb", "4502afef", "9a4d8e02", "26da3b05", "9219c822", "5dcb8f23", "ce075462", "4a5a5ae9",
      "9e28c7bd", "5d62cad4", "a73a9c11", "8cf03fad", "17cf5ead", "978a7473", "ff17bf10", "dada0232",
      "adab325b", "85cda58b", "0b8a65d6", "30a3012c", "7c16d8f9", "27cc2b70", "0fd5222b", "aef64652",
      "8bedd5a3", "d60776bf", "2cae6480", "9456e64b", "edf45277", "be6b8284", "d4239f10", "254fc61e",
      "2fe05707", "e304be67", "c3811ad9", "047b2618", "e65cf622", "76f6fb19", "6921d15f", "db8af990",
      "1c01fed6", "6e002807", "2dc58675", "e4d97d99", "e9b6204e", "4b1d6fca", "10cc0647", "6e8b4156",
      "de330f5c", "f3554722", "176127bc", "2831f7de", "c4340f05", "f275cc32", "c1cd7d80", "4724e1ba",
      "8e49ac06", "f1aa3483", "e2c41dd8", "68867c6e", "32e654de", "706c1af9", "fa0d3aa9", "946e42d2",
      "1c0e85b8", "590a109b", "2c2eb142", "c0a56cc0", "e22a24ec", "7ff931b6", "b8d2657d", "41799549",
      "2cb5478f", "76d2452a", "705892db", "d42f7921", "d427612d", "abcfc463", "5323ad7b", "c7b1737e",
      "9decce6b", "defb9c9e", "d974a173", "348d0813", "4b43f374", "e42657a9", "15bf1855", "0aa6d199",
      "bad6464e", "f242f9b7", "1cdc8831", "e289ef87", "e7774a1e", "fb6499e5", "e874f821", "a26f100e",
      "9c07165a", "22baf4dd", "6cbb96df", "8b82303f", "344375c9", "a76d4381", "cb12f359", "fcdbadb0",
      "b1c7f8f0", "c569b734", "231c02d8", "58be8fbb", "b1eab5a6", "6c5e1953", "74b76255", "5436b14b",
      "d323d779", "b5f5dc2b", "2ea5d03b", "01f5335b", "00f5ae90", "457deb3b", "5a1392a6", "584f8e4e",
      "9756165c", "5193ec5b", "c5607278", "62cf816f", "4f2f7584", "d048e71c", "420a0333", "091dfe95",
      "1926ea84", "2890b2ac", "9aa21053", "3972e304", "4771fb32", "b4f12502", "efa06a3d", "126fecb3",
      "cd516e85", "64c26709", "5ef0d017", "2868b4de", "46aa319f", "7ac398ac", "d65c7f7b", "6b0fce32",
      "622853d1", "e421bdd0", "22ae26e4", "8b4116a7", "ca75d33a", "225faead", "79a02d16", "76ca0034",
      "8e53a202", "3c1f13c8", "f4e9dad8", "57a5cebe", "7d5e92b2", "383bd98c", "50aff855", "c3db034c",
      "0e330496", "e651b7c5", "54360a8d", "b38d0d20", "56a16e9f", "d3e017ff", "7ec80b93", "5c004a33",
      "607fa664", "9de23e84", "727b0b37", "0a170dcb", "579e2e51", "c9bd3fe5", "2f8806c7", "84945b87",
      "392eca58", "b813eae2", "f880f331", "fdcd50a6", "17098024", "0b620111", "17b4b61b", "a604ad14",
      "bbfe83c9", "87486955", "b2246173", "2b30529f", "8ec8170f", "5d0d0873", "cb7756b2", "3fec7928",
      "8f7ac39d", "aa1bdf4a", "451ee98d", "db819441", "7b1eaf8f", "5cfa5053", "047e340e", "e4ea479e",
      "498eb11f", "4ff3a2dd", "8bb797c7", "afd81239", "8232db84", "812386df", "9ed9c140", "e343d748",
      "50641f99", "1d5be463", "5ccdc225", "f41035a5", "67f9e430", "e17bb28f", "a1536047", "6c2570bf",
      "ab1f8216", "34a77b07", "18cbd0d6", "bbb1559b", "81fcd155", "6f9657ce", "81ae9f33", "d13e8b12",
      "d41b2566", "2fae9315", "e0d8f3bb", "7f92b0b2", "9cc9c029", "06d5fb76", "f28a3391", "a4330c5d",
      "bf40b27f", "68ee9c8d", "bbc08403", "1ad263a1", "9507f406", "043581b3", "f1a39eee", "d25530d7",
      "dfd1965e", "03ea43a1", "a56d144e", "11d5f9e7", "ee2fccc9", "b860dde5", "21374543", "9a1e61e1",
      "959ed770", "a03efcf8", "4ad6d2a1", "afc1605a", "df901a75", "3e1cd5c7", "0d279a04", "dce1f2e7",
      "e50d9e91", "7d8dae2c", "4282d38c", "34967e32", "21d91471", "182de5f5", "bdb59e64", "7e1c6498",
      "066514cb", "f1ba2f7f", "7ac3fd70", "b67388b6", "d75b93b0", "25d411be", "9f61499e", "367ff3d4",
      "9109e609", "c1ceb8d5", "987bb2e9", "f0f84f90", "2dcdf69c", "75e85e42", "233785b2", "52d97816",
      "dbae9fc5", "d83bd54e", "887cda98", "190ac9b7", "592f5cb3", "85f57120", "9eface10", "c71f8a16",
      "edd67633", "d118d2bf", "23d23115", "4db4364d", "3ff91967", "0e02b2ac", "64735891", "62e067eb",
      "60e02663", "7fe3cf1b", "e94729a6", "7c6d6807", "61a9fca3", "456e37cd", "2b61cfcb", "43bcad26",
      "9a6cc966", "8454db19", "54db5348", "d3613eb7", "0a19ff1f", "7c4e7ddd", "c87f1a8f", "95f90b9f",
      "6e4a9fc3", "18b22f11", "aaded17c", "ba1fca69", "94b01b6e", "e211b077", "54c5f65e", "18c998b3",
      "5fa9f46f", "70c885e5", "eab52f71", "2f3142a4", "0826d67d", "c28d5c24", "8cda177f", "5548b72d",
      "903efead", "752b9fde", "f0f8a2f0", "7052dc45", "fa6b34f6", "baa00ac1", "087045db", "d552c4cf",
      "1cd11453", "3f478734", "f5074ac3", "ea6f32a7", "b94a2b6f", "875667af", "b6c6ddd3", "6b282de4",
      "d09fae93", "0067de92", "0b6dec1c", "970a075e", "0967cb48", "a196a07b", "bd96dde4", "194924f8",
      "9de79fb1", "3e908bd6", "7aa989f4", "7af731b4", "a52e09b2", "c31c3924", "4ed0984b", "2405faa0",
      "9088e472", "ccc42b88", "d9f3ec36", "10be0f1e", "1a97b7a2", "6378509b", "6d385d75", "66d8ee1e",
      "2b8bad3f", "13397bed", "98fe117b", "46a165a8", "5e961b72", "7e4969ca", "540f7aa8", "a21a010e",
      "1bcb52fa", "4c17011b", "ba6e0676", "4d945631", "c2ce6867", "88d540cb", "cc35f18d", "557dc36e",
      "27b5673d", "9cb67854", "6542f3ce", "92540727", "c6a59b23", "719a4316", "b498d062", "6f88dc4a",
      "daa0515d", "26641c71", "66e1b54a", "d3d9b88a", "be3f3dd4", "b8dc8826", "521d484d", "d278c2c6",
      "8929c747", "32d76565", "7cdc7929", "20b8146d", "64b4bc2e", "a42d180a", "cca54cd0", "5334f63a",
      "ee10ed7b", "96d9d4ca", "bf0eacc1", "eed750b6", "8e29642e", "145cf79f", "bfaea59d", "e98edac0",
      "160385ff", "5fe32b85", "a7aac0bc", "721d77b9", "28374cf8", "c6a61121", "9aead5dc", "e583d2c5",
      "047172ef", "54d1b2cd", "e7ba4d27", "6459bde1", "880f24d6", "74943981", "fff7cf00", "c8228569",
      "506c3ffb", "981c3a64", "15f17096", "6b625f8d", "8ba80465", "a1b21666", "bfabd7d2", "72521e9d",
      "01fb52f7", "552baae0", "c0ca507d", "fd831b75", "f188f7c1", "2a9832de", "0fc8314d", "e7897c9d",
      "1eedefe9", "5800bcf5", "5c6ffea9", "bfb20676", "f3620bf4", "236a3e61", "c2052274", "e068c5ee",
      "2792f625", "167c5c4c", "81bc497d", "7b2d5a00", "e3ec2e39", "d458481f", "e56d79f1", "984282d4",
      "2fce8423", "89a59322", "4153ede0", "1f56680f", "8bf88985", "e02c2167", "3484ee49", "fd6803fa",
      "5168f0f8", "9ceb6f23", "afc50544", "06fc8d6b", "6489bad9", "d22a610a", "97cbea77", "a701516b",
      "bf2da8de", "3c13bcd1", "8198bb0a", "d01dd5f4", "5a3a2bdc", "aa74c80b", "be860f4f", "56a9ed9b",
      "58445825", "f2d773a1", "b7ef3651", "5a5d59b2", "b1008566", "a9702fe6", "876f2445", "f705a4ad",
      "089f1214", "d08b24df", "34f7ebe2", "5b0ec73b", "478f3769", "bea8bb5e", "66c51fd4", "e66f213b",
      "b64d6442", "90259d84", "f9abff67", "47ccc420", "329c8422", "a0b7286a", "9b820a1c", "0bbf8317",
      "035fafd0", "6b49619d", "82fb097e", "db99f30a", "713ec4e1", "75d60628", "6aa973aa", "729f9641",
      "264e0956", "38faeda4", "5d96f1cb", "2be6c11b", "69af4675", "6b337a0c", "58c61175", "aa2a922b",
      "ef7ced4b", "e10ab0d8", "be12c05c", "4b6269eb", "513d4daa", "be1a2106", "44c53430", "08c34491",
      "2a97a14f", "abc04a13", "84f9f35a", "4c03c5c2", "64d61780", "46847a74", "f776d159", "8769e266",
      "cab952f0", "f6165160", "5a1550ae", "7942b8d2", "f2912992", "6987ef24", "167f1f68", "6e37c944",
      "838a9625", "33c84d66", "f1bf2648", "48906d6a", "372e5372", "8100f87a", "30dd6c63", "55fe1144",
      "46e91bf8", "f877f228", "24ce362b", "0c7c18c1", "8b3b681f", "2995fc44", "f09e2cee", "91357d32",
      "84496178", "a3b13cf4", "8e4cbfa4", "901fb763", "fa5642ea", "a818011b", "5d5ac57d", "77494687",
      "ac69f098", "7ab786f5", "e0fe4969", "5311b657", "7eed00e9", "c0adab34", "8037afb2", "5607b0ec",
      "89bebb63", "3f7f3473", "8a2e0381", "0dfd6494", "87edf105", "bd26e640", "9e59a9e7", "306447fa",
      "351ef0eb", "07b2770a", "226d9cb9", "0fe67053", "00b2978e", "def90a9f", "dd6626f6", "55bd0962",
      "98ffa711", "9b993b72", "e89a21d5", "87e54075", "e02e6f09", "ce090378", "4f0123f8", "6a93d564",
      "e3471cde", "90769d87", "9e587dc5", "ca1bb0a8", "2118ce6a", "cfbb1ad2", "708e1c00", "61c8f929",
      "369005a0", "f1f0c865", "bc406d55", "272aca1d", "d593ad95", "44ae26b9", "406822ea", "7d9807df",
      "6b5f7f13", "7cd3752f", "d09bfe99", "cbbeb364", "ab86a6c8", "22b58f15", "067bc24a", "b6177772",
      "e6058879", "20dc294c", "e087572f", "3c1f79e0", "f56df543", "ca1b40ee", "d3b0e339", "2d946603",
      "fdec3340", "f4ee5fa9", "fb74c40e", "d17f7af2", "2ed9cf61", "ff2f9601", "04615d20", "1e834a67",
      "8fab61d4", "7208442b", "16df037c", "cd68acbd", "4e587157", "cf2a64dd", "47c18d5b", "7b7f8e46",
      "d5da4a09", "ed36089d", "86699486", "d4783b19", "0579288b", "e45cc2cf", "5e136f26", "2330ea09",
      "4b1f10d5", "24b8b479", "2d4b6190", "7b8fc429", "a55f97ea", "408debd4", "255c12c2", "c56333f6",
      "39b7c00d", "49c2a5b5", "859213f9", "3e11a47a", "d053cb2c", "5fbd50a2", "3ea1cde1", "4045d7ee",
      "85be3283", "eabcadc5", "ca291bad", "83f0ce2b", "faee8611", "4408ce1d", "89f5626d", "0d1fa4cf",
      "5a87ee03", "79146cd9", "7844c642", "3d832b7b", "863c2aad", "cdfde7d5", "f2ef40f8", "298f18e3",
      "a65715d5", "f6b618fb", "6b6f0a5e", "159827db", "17e86d46", "043f984d", "9386c480", "76a664ed",
      "97c9da88", "7726be44", "740362d6", "4d3744e7", "767099a7", "6a5ef219", "f62108c3", "94416238",
      "6302109c", "b949770e", "c71ade37", "7edbcea4", "3352845a", "f97ef58b", "b120e034", "8ea6f4f0",
      "f7f589b6", "a8c89adc", "5f3585cc", "4963a48d", "5caef648", "e7d13ff6", "e2bb756a", "27db2696",
      "40b6c915", "44718e1c", "d56213f0", "c03527d7", "b84a0ed2", "fd633d18", "2d5fa1cf", "ea67f00e",
      "7a5a267f", "4b122e98", "6474cfdb", "8054c454", "48a769b4", "b650a13a", "a60f09ed", "6eb90772",
      "4fcf5ca4", "0ee4809b", "99bd72df", "c895c348", "0e20415c", "cef5108a", "89c5b53e", "bc74ef55",
      "d2427e01", "d3606ab9", "e970b949", "a4a14c43", "a532acff", "22731609", "1be03708", "117dc1cf",
      "b572609c", "29eddcfe", "076cd9c8", "2535d0dd", "05e6e5c5", "072302a9", "c04fcfb4", "4857df41",
      "f0621447", "c1a7bb63", "16911d45", "6d5f5297", "3250be7e", "9095442f", "7948187d", "3af70f0f",
      "8d6da4cf", "dee0a199", "c1d6894d", "a489927f", "e661c57b", "25484c2e", "df65735d", "73b12ffc",
      "c174a055", "3a6ea0d0", "4faa747f", "40b2126a", "1821051e", "c9a40334", "208fd7fa", "af5fa765",
      "31a5070d", "531ac683", "352dee6d", "2682c643", "e9e63971", "7912ca1c", "76becf7f", "da91d202",
      "1e27b4f1", "2e431181", "33af54e1", "010dc900", "50055f9d", "c7078a59", "71064b76", "25270cd3",
      "4dfbb581", "3f0971eb", "8fab6f8f", "b9f71e60", "1d108707", "f39a9bf6", "ba70cf02", "e23f750b",
      "626696d4", "3aaf55ab", "a72dad17", "d0d5d3ca", "f240eb49", "8a454d74", "0ff7dc37", "0487ecd2",
      "9fba9ffa", "0fd23dbe", "4ae80ef2", "7f3140df", "1633aee5", "1979e0f0", "75deaeec", "9875ec97",
      "689f0e7b", "5b8f1324", "147ec9c0", "2563c4eb", "6931e632", "a0aa2b93", "74d5eff9", "7f30af8a",
      "80348c0e", "3ed370cc", "cd3ee9be", "9e192129", "fcb3274a", "d41e91df", "418e0362", "7278cd1d",
      "30bf706c", "828042fd", "a475a19a", "9d5963ad", "2635efe6", "233ce735", "59ffbe08", "e712fed5",
      "9f6ade3b", "9fc9e1dc", "cb2d733d", "cad8a483", "cd425639", "3b6c72ee", "552c0e86", "6c019a4f",
      "623eb94a", "3b13a800", "00cfb9ab", "ecf9ac9b", "8b0f6c11", "67e0febe", "89c3acff", "e90bedd9",
      "7e800f3d", "18dc50cd", "2dbd96b9", "b1daa655", "046f7223", "e6f79536", "ec9a696e", "11b8346b",
      "05d3cff9", "bdacc54e", "edf14ee5", "c3ee744d", "2598d72d", "7b89f29c", "0f538ea7", "2b3d6282",
      "8b4120b6", "c3a747db", "a15e8771", "8c1ae112", "1794103f", "0face305", "937972d2", "0bbbef03",
      "4de3fc12", "542036b5", "79cd3073", "557dc785", "76ee6a7d", "65d5dc65", "c5e2c0fa", "da054560",
      "692f3deb", "f76d2b48", "dbae381e", "82d9b98f", "496f3e4a", "8dbe505b", "88b0e46b", "a57f0478",
      "049a7001", "27ad80f1", "66fada97", "0149206d", "6963cff3", "68c3c34d", "e8094f69", "9e278176",
      "fd75c636", "e788449b", "c10227ef", "aff447ed", "bc6e05f8", "45a86912", "0216466f", "2f673eb0",
      "2c52589c", "83dff2dc", "ab21376d", "3948c69d", "7be34316", "7bc4d7aa", "3ae1fb14", "6d49a07c",
      "c7f7f1df", "68954441", "16058c91", "35d09d7b", "12b488a5", "65228687", "0c29d614", "d8c94153",
      "9995adb3", "49c187f3", "65f3fdcd", "5efbe35a", "0915e23d", "8f3cec70", "16e97431", "2262272d",
      "7ed89547", "2678948f", "014e6e82", "5efe6d21", "6736e177", "c5ea0d74", "8468d99d", "088e2c01",
      "062493ff", "14be4813", "aa370590", "65b477a4", "631f26bd", "72a434e9", "829e6039", "72636f2c",
      "30239712", "e3f923ca", "518242ad", "97446da6", "6c92aa83", "a89111a6", "65086e23", "ce3242c5",
      "48117d54", "d72132c7", "2ae2b520", "1afc5228", "97ff0349", "7eba91e9", "926c2b8c", "58f7a0de",
      "28c9851a", "b8bfc7f6", "8b121128", "73a9501e", "466e6882", "0785271b", "c9b35ca9", "38a55d00",
      "c554df7b", "f55074ab", "bdca7667", "cf7b1852", "4e6e1ef4", "8c103683", "3389b656", "fbc4f5ec",
      "a10137af", "2b21162c", "e097a57b", "11afbf07", "05b9d0dd", "c9cc7a4b", "99da97f3", "489c12a5",
      "6268a3eb", "ae93ac48", "fde4ca2d", "58cfb49b", "cb855a21", "25a156d2", "d0a1b8c0", "0e807035",
      "dfaccbe7", "5c7a801d", "e5abc861", "06e40db9", "c8005bcd", "852aa3cc", "33277a2e", "8bf7d321",
      "76e006f5", "9e6662e4", "da5c4f9c", "b32c429c", "c9f4d742", "eb7586a3", "3469e948", "5f27bbeb",
      "2abc2ecd", "58844ab7", "e844ae43", "b4e3d931", "86a9c287", "56ea85ad", "08a89d3a", "a6b963e1",
      "2dec5ff7", "b9fe5326", "426398e0", "8c2861e6", "434e3b07", "f1ef8257", "2a47a133", "daa6826d",
      "ce82ef7d", "751e624c", "0a4d3716", "0ca2fd31", "47d0d53a", "9c9da6fb", "e607e385", "9366292b",
      "b9b47154", "ad1d33a0", "c347c202", "85442b8b", "15971d02", "0359c3ac", "353b9cb6", "6720c78b",
      "83d9693c", "19208722", "4de5852a", "aa87ddcf", "fe254636", "e4fc0e45", "b53101f3", "517cb183",
      "b3defc06", "725184d8", "74230f54", "69517616", "87ca1ecc", "7fa7c7ce", "5bb9df9c", "85191176",
      "b8740bc2", "187c35ad", "ff0e7972", "8ec2eec5", "3a0c2fc1", "c854e82c", "87556bcf", "dabbb50e",
      "2e7d9dcd", "bf60ea76", "75e9153d", "a5da0af2", "330f2588", "d6c342d7", "0baab32b", "68580e21",
      "6c4ccdde", "8c47c9b9", "a704e668", "8edac50d", "ab36568f", "329adafd", "dd807d84", "2f08df93",
      "8b7c48d9", "533463cf", "f66ee6c8", "920894c1", "312db124", "fb3e792f", "532cdc6b", "e07b1a67",
      "dc333173", "e27d5136", "b4d6d482", "61526d67", "8f966915", "26dea992", "f0cd450c", "b5856c2f",
      "48269bbd", "9cb26ae0", "bb50bd7e", "cc4e8300", "7fbda757", "183d3f2c", "34c8d930", "5e504e44",
      "42e69628", "0b5aac09", "f6bb6efa", "cb715df3", "bfc20718", "21d0d5a6", "03341483", "1fc7cd70",
      "04f5283c", "ec569468", "ee6520b8", "70f9822a", "6439a3e4", "1ab4b1b5", "2f9a6951", "0bb2b2e6",
      "8d53edff", "4a62da38", "20dc1af1", "e522b06c", "cb859434", "d90caf08", "7f0e481f", "73584399",
      "32a14459", "b9ce9c82", "89c329dd", "01d5c76b", "0852118e", "538cbb3a", "b0b3de42", "ca11a1d4",
      "e22cc765", "6029ee5f", "0827af9f", "e45ea4fa", "0e43b707", "070c38e2", "226d717f", "61878205",
      "98e618d1", "29420987", "4985bd35", "e74af9a1", "4f16842b", "3704a667", "e783c8aa", "a545531b",
      "9b41cd53", "9f70f1b2", "982bb5e0", "b0c64103", "11f4f6c6", "e055b16c", "d6368b74", "04ed1701",
      "b19acb44", "3ad446d8", "63cf25b0", "a117fe14", "abcd463b", "fc9741eb", "8fe1d08e", "936cc398",
      "f9005f4b", "fa83e3ae", "1bd1b096", "5d1d6d0b", "03930ed4", "3133a5ad", "7f7d47e7", "49270245",
      "5713b92d", "9dea73d9", "482b5bc5", "ed608c1c", "1a1f6c8d", "b985a50c", "cc613cd4", "7edbd947",
      "9c82390d", "663770c4", "d6b2bb73", "39b4d836", "5ffdc085", "b2765580", "17a9f20a", "0d82a5b2",
      "789fa9f3", "fd2332f0", "6c80e9a5", "318daf0a", "5a4cabd6", "a2870a80", "9e519437", "ea27922f",
      "f560f1eb", "d53a2291", "275af7a8", "a7082127", "5755920f", "9b1f9801", "ae01c199", "153b3903",
      "e473f92e", "5620362c", "cb84eae0", "ef093896", "9861027c", "ea20ce7e", "f57efcbc", "00a3e702",
      "81471322", "803ee4b0", "d6eee3e3", "c645e286", "661cc507", "5b05f15b", "83264c8a", "5e993903",
      "771d22b8", "c015ee50", "e835cba6", "c850a1cd", "0f84c1d2", "1b45a744", "460b9057", "f7724f11",
      "61cb79be", "0dfab8b5", "5c85b6b1", "b20ecaed", "bea56604", "c30ccbb3", "22f65d86", "0f96a3c4",
      "69f9db63", "4105acb3", "000eea7c", "5e521849", "35d7160f", "95fad723", "f3b7faeb", "206cde65",
      "c1873643", "6461041a", "9d2e9791", "dc787e0b", "a0c4388d", "4798e31e", "3ce9b09a", "d8e4d3cb",
      "5717245d", "0411a58b", "70897423", "16b9d820", "3e2613eb", "254ee356", "06c06a37", "3930061b",
      "1f7b8050", "7fd1ccee", "3dbbaccb", "56756790", "5674b4a5", "a8fab5ed", "4da4fc4e", "b5f7c2b5",
      "89ca26c8", "2caef5e3", "eba9d3e0", "a61307c3", "9abccba0", "53f45359", "22c624fd", "1a8a134c",
      "b546e3a2", "03405703", "41a13f8f", "7a6925b6", "de9c1172", "49749225", "2efb2488", "29dbe7c1",
      "295889c0", "613c599b", "68748b9b", "cfbdfb0b", "90fff3be", "afee5c6e", "b0c39eb5", "7657608b",
      "cd3f4d30", "b0a1e613", "e063826e", "06e040c5", "c55b2477", "75fa7179", "8650dae3", "67a14575",
      "bdf6014c", "13403c3a", "4d1ba34c", "52909e84", "a1f90258", "5b2f88de", "d983896d", "e02f9da4",
      "ca86d1b2", "6e45d691", "f58706db", "dc352c55", "f6b3e85b", "48a98750", "dbd34b1a", "9d7ac620",
      "6aaf9c24", "69d815d5", "c763ddf9", "4b55bd20", "2887db15", "ee6b46b7", "15b4bebd", "bf124fab",
      "20caa2fc", "5da3ef43", "edb0ab74", "cc3827c6", "e2f1f794", "a2f351b5", "d873a4b9", "a1285e55",
      "1420443b", "1912f75a", "a0545b45", "ca40f085", "8486387f", "3e7d6da1", "98fd630b", "2e706702",
      "ef0b36e4", "c822e907", "fded5bdc", "e0fed95b", "83f01a22", "5b01f021", "34831127", "8889b3a9",
      "912ac93f", "d8a1450c", "30ccd9c7", "bc4cfd63", "ab2ef39b", "359f7a42", "91a172e7", "67322400",
      "a2f81298", "73528096", "6d5f3625", "1a569d84", "f316cccd", "b28b7037", "4766e67c", "80f7d565",
      "31e21b8c", "10d85ddf", "fc68cfe6", "205ddf22", "105054db", "a2767081", "db0a4c90", "39b84ac9",
      "cbb87e47", "9b7d8335", "e0786e5f", "fceca749", "69585c17", "5eee0159", "9f5977f2", "c8e2ca83",
      "e75aa68e", "c6ab5290", "dd31d89c", "0860aa4c", "06f58377", "59a254e1", "7f271a12", "b65cb2c8",
      "2dbe6e86", "173b37ab", "e5af9d2f", "2283dc1e", "c1c4ec01", "a65f019c", "cf346366", "43ef92a6",
      "68d8fb00", "95c4076b", "9755587a", "9446160a", "ae57d9b5", "b7da8f7f", "9ff9de08", "add4d2ba",
      "d66fccaa", "b5a448f5", "4bdefc6a", "fadcb20a", "3c3e466c", "e9fb4e73", "ac2e9c1c", "d0efaaee",
      "dd64df37", "dfdf36dc", "b793f74a", "1c34e0b8", "198eb393", "16a824e4", "c580d491", "ba573f12",
      "6302cff6", "c1e37b50", "4de04576", "37abcab2", "0ca5e21d", "81318f29", "a368cc41", "d3dc6aeb",
      "78253130", "c956e8bf", "0bdbbd17", "5cef382a", "30ee6ed8", "0bc382b2", "2348c8ea", "c1c42ed6",
      "11874c6a", "9666b608", "6d69b681", "329c9179", "dd85f2c3", "c9fe4d0b", "ff5301d8", "b2c73b78",
      "5eec4eeb", "a8465cc3", "f1885f2d", "a9dc9138", "955531a5", "88a52de8", "c929f7a2", "bdc4bcda",
      "efa28b2e", "740431b1", "43fb1db2", "389237c9", "720c93dc", "187dcf45", "91807dd7", "67c4d4c1",
      "08729daf", "01826b08", "abcaf9c6", "e8b24bfd", "2cc9f5a2", "33313993", "78632f51", "913f344e",
      "3399ad2e", "9e754592", "f9b3cf18", "bb36eb35", "aeb2d23b", "a33dde16", "45fe95c2", "451bfc5b",
      "07075a02", "73478acc", "b9cd8a81", "7e70d256", "c7581baa", "f61e2970", "b02f0bb6", "ebbea1e4",
      "a9784852", "9e2e18cc", "19dccb05", "6ba329d5", "370ee86e", "7ec8cb0f", "120bbaa0", "9975b004",
      "70728f43", "40ac4373", "9fa4c5bc", "8271920f", "5a50d2b2", "b3b91c85", "57dfe961", "52270124",
      "87d6a50e", "0a4557c3", "d72c4283", "87019f50", "139515f1", "e545af70", "dab683a4", "8fd19341",
      "cd721541", "924321dd", "7e5814ec", "05700b85", "1db175b9", "c0bfb680", "ec14e6bc", "ee40d9ba",
      "dfb50263", "1544b395", "5c22b721", "f4a61886", "f75eb39c", "5dc866f5", "4ef81c79", "eb54863e",
      "fe1dc28c", "6d697e2c", "f7a0f63e", "cb298793", "e2da5256", "c04a990b", "43c10327", "baeb6ac1",
      "b001777d", "57aed42d", "17f6e36d", "94f2c93f", "08c8584c", "1a99712f", "f771d9b7", "03ec9fc0",
      "65b69aa9", "07f81033", "f43e83cb", "fe484617", "52e533b4", "421fc1ef", "4bd0e498", "7a125bca",
      "297bed74", "18fcb3ee", "ff7434df", "1da6756c", "bf2b81ff", "03b9d6fb", "724b4986", "1e08aeb8",
      "305ff109", "40d12bd4", "8fe7629e", "f006f26c", "364113f7", "5364a9c9", "788a21e7", "a6871a7c",
      "d40f8630", "879f85f0", "89ee8ebf", "fe0102bf", "8cfab3d1", "9ac903cd", "f4501192", "88e0f631",
      "9643519c", "8a060215", "90380a08", "35887958", "7d0a7c37", "8147884a", "78adb842", "7476e625",
      "4ba118b6", "721d5b55", "592f7452", "27393ff3", "8af58e5c", "28c8e3dd", "8c6c8afe", "5c41c223",
      "ea9428a7", "a67df1f4", "8b59f6b1", "6fc36461", "70534bef", "3d071621", "f0009127", "69f3ad44",
      "35f7fe99", "9feadaa4", "6efaf2b2", "fcbff6fd", "fb8210a4", "680f67cc", "007b25b6", "b7716045",
      "81c82c06", "124958f2", "57fa6d8f", "b5fcc9b6", "2b935fe6", "ea98ea00", "0cd6c140", "406dcfa4",
      "71dcdf53", "5884c7c8", "b770e331", "72f7c354", "1cda0b53", "7702a526", "40d6d6c0", "acc11423",
      "79aa958c", "5b72ca40", "11775c0d", "3596a530", "5159bfb4", "a5d229eb", "3e732cec", "1894c0c7",
      "4ef19ec1", "abd0e224", "d23f2044", "4fd3c580", "e951de99", "405fbf22", "e5e404d1", "b203d7b6",
      "9f37f9aa", "d2468f7f", "b7ec44fb", "dd3b6384", "0c67c583", "8e37da83", "f4d1f1d4", "ccd3a25b",
      "6c989824", "55b0af74", "8ab77a17", "89f26d51", "3613c8c7", "da5d70fe", "a2aad40d", "61ad2525",
      "50ea5fca", "5e631fc6", "490fd5a7", "0874bd07", "e7649939", "b4fd1a1c", "7c0a5915", "3fc19860",
      "3df3b9e2", "51fba9b8", "e4b404a4", "ce2ecc98", "1ed80309", "7ee0daca", "a08d9f0b", "01735f52",
      "f2372bf7", "2266884d", "438e3e0c", "aed38645", "4e721938", "573d5c30", "40a2face", "7f035694",
      "0bd8037e", "78ad1843", "14328f07", "9c83bcb4", "e8ca61a2", "ebd0a328", "758117b8", "884a99bd",
      "d056c095", "efc15d1f", "703cd7ba", "cc785b66", "5ab5985c", "34267c12", "e7d84a21", "a400c30b",
      "e0e7cbf6", "a40de9b3", "7e7e38d7", "b9bffa8d", "287ef0ae", "73049a35", "82830af9", "f3781dff",
      "17b77fc1", "069b56f4", "a82fa694", "dd12f75c", "542e821f", "4539af81", "55a6f6c1", "c4ba896b",
      "d925afe0", "9e5e9a4f", "b0069d6c", "7dca8db3", "a0239e62", "8328b73f", "710ca82d", "a1e09d8b",
      "47ac1451", "ff528d05", "9c66ca4a", "aab6e43a", "21b5be93", "10b8150e", "84b0e1c0", "5c12251d",
      "bb4e4e9c", "5af4fdcc", "83b305ca", "b9d19b5e", "c6b01edd", "138559fa", "c3545ea5", "f76d045a",
      "bb7b18b1", "c86394b9", "e992b55e", "a156c24d", "de2fb640", "28b44d40", "e3e106a7", "1a6d6f00",
      "5381e7a6", "55428baf", "6ba4ed6b", "d89c8184", "fc498d3b", "5e69799e", "17d301ba", "6c7e09ce",
      "f17a4c8f", "5ae4285b", "26ae3295", "e33ca6e5", "a67af641", "39bce6aa", "ceded607", "c39d7f4f",
      "2a7e203f", "27fd170f", "62ea5057", "899877cf", "f1b3390b", "e2304762", "0b8a104d", "d61b7354",
      "ab0c8a75", "c531df93", "8f295498", "658165ff", "15610c5d", "41a227b4", "b2c0dfe7", "785d0535",
      "b9a47ecb", "595ebd06", "75820f81", "8b01b198", "89cee947", "6d2ae531", "cbcd5506", "72745b0e",
      "1b6f2529", "130915ed", "1bacf0dd", "17b9caa0", "9f95f75d", "6c008f24", "89f18e8d", "21fa4887",
      "bec4c776", "3cd1c9ca", "cd53a941", "88b979af", "d2fe39eb", "7ddc750b", "edbe0573", "7da076b6",
      "0ef70a66", "d6910d67", "4d561649", "73532913", "0e4e8253", "f725958d", "94f9d3d4", "7a5545e5",
      "5b1a13ac", "c4603d60", "c491c3d3", "fa467d72", "403f8ad9", "61defa24", "5f173bdd", "d30e2eef",
      "21c3906f", "7b58c947", "84ded909", "4a78c60c", "3ece7da0", "979f038a", "cf6d2637", "802b5122",
      "56eaacf4", "f684bae3", "e83bec01", "049389e0", "35ac1ba5", "a58d6f3e", "252fd117", "df2cf1e4",
      "550fb0f2", "acdc7c6a", "738cdce7", "03ae2e2d", "12fe815b", "56247eca", "cfba601b", "7c2eba50",
      "1c418cac", "2591fd85", "40b64fff", "686e381f", "a55caf88", "80a43af3", "4a72e040", "ac62f738",
      "09c6ee73", "c60889da", "aa9293a7", "9655183f", "f6dea93c", "3c8ac46b", "603f66e9", "a229d114",
      "6628ba11", "51c9126b", "2bea8434", "f8645b43", "8f7ed572", "e07ef298", "95f583e4", "5799b329",
      "31a37f39", "0ac3eede", "2c01b77a", "459439d3", "0384a670", "45af36b9", "a86647b4", "4b6ef3c7",
      "6769ab2c", "0d1a30b6", "352a9834", "cca1026b", "e0a90970", "5e44c0b1", "d54d4ab7", "5cb56690",
      "f9e9bac9", "8332c4e5", "5929b7cf", "787d02c8", "a19953f0", "0a1732cd", "37cc2192", "cfefd628",
      "103d6959", "7d7c6883", "26505d2e", "22508a35", "6e44ef98", "266830f8", "d81fcf8a", "75f0ccb4",
      "4ef56acf", "a89ec003", "7a4f357c", "7274152c", "4d936727", "47e9fea3", "61e4bc1f", "9192f165",
      "01561efe", "ee526e1d", "21f8f96b", "b1b8b322", "a3194192", "4561ddf9", "cf3b9943", "530d8dc4",
      "2dea34b9", "c8e1e883", "83ade8e7", "25298717", "9ef96502", "811e86dc", "d0037d9b", "c4a5cd31",
      "79ad8b1d", "4ee6fd5e", "855ed189", "8e805c7e", "4f682b7f", "1a55429b", "e06bf16c", "2d1fa25b",
      "71e46abe", "178a810e", "767efa39", "77e0c4a4", "b9f32da9", "be0a160c", "238b3bc2", "5f591bcf",
      "69bd209f", "c53f320e", "18aceb46", "d11e5d9d", "c3599c2f", "399f9018", "5ba6f525", "41642ca4",
      "355f82e0", "a8744925", "98806b6a", "8454b95c", "e8860c40", "e1df2894", "fd4eb97e", "8d8c9327",
      "44a65328", "39ce8376", "e4cead94", "e7e3082e", "4b670458", "7da75a5e", "72973ae7", "fcd69c9f",
      "5bfd92b5", "9c0f4480", "bf4f6f02", "b799daca", "95dee8f5", "21eef023", "27d33ff3", "77a85392",
      "2fd02d15", "2939c7d2", "7ffcc8d5", "24ae85cc", "7157a03b", "51bdde31", "87c2fce9", "e587ad1d",
      "22820b93", "8f2fbea2", "05f29ac8", "b0949151", "d54021ca", "69cee1b0", "efad2612", "17a4aa82",
      "9dacb901", "0faa8586", "b1825f37", "fd96b308", "139c4147", "2f5558d1", "9966e5c3", "f9da12da",
      "00545dc5", "2240cdfc", "84769ca1", "415ef603", "d1470f8e", "2dca9c32", "9f6ba32f", "a3c8da69",
      "2adc44b8", "0949aed1", "347ca692", "6be8073f", "a9d71b9e", "1b871a23", "898de1ec", "2781c612",
      "7d879767", "1dd366c5", "80606514", "ab045fce", "5355f87a", "8b8be994", "e12c8657", "7ffd8f22",
      "06fcb1e1", "d17795dd", "a1fb6708", "c0c0ca33", "ae4c61d7", "89ee53a4", "e5c3d700", "43a2fa3a",
      "520d2912", "87f6a2d2", "de5d6132", "1eeb31d7", "5c8e0974", "f7a54623", "de3ca341", "96c935ce",
      "ea47378d", "985c063d", "ae7a6330", "9c31d470", "e21ce60d", "91f349c8", "7c525bbc", "87f082a5",
      "61f27690", "5dd4b4b5", "c82dd8cf", "080bfd51", "66ddbe18", "c1307f78", "1d74a51c", "ae763031",
      "560737e0", "176bf2a1", "76a7b3ad", "445e3f6d", "44c29859", "983c8071", "028cf104", "ac9e27f3",
      "4349480e", "186a06ab", "9512c6d2", "c96e626c", "52601b0d", "156756b1", "fec23245", "ac6fe69f",
      "3f5082dc", "60f577d8", "0516280e", "dc37f374", "efbdd15c", "58eb89a7", "205c78ff", "ced5edc6",
      "dcefb8be", "1f5df09c", "d64b8a36", "e0930fa3", "5037c936", "d9eca1de", "db412ca7", "c801940f",
      "fa42d40b", "470ab8bf", "e4ab78ed", "40d1af78", "a6e7b16a", "588c80a7", "83255a92", "0c85516f",
      "93dc442e", "472ab752", "3338f71e", "4321379d", "2266d001", "8d0ddc5d", "3533cf83", "28a808bc",
      "84464ddc", "956aaa49", "98f66746", "532f1c85", "c8ead292", "b5eea41f", "cd47b451", "45d57408",
      "af5638f6", "604721e9", "54807ba6", "b9621ecb", "b2dc2bd1", "d6b52946", "06b79147", "2792dc9b",
      "fc4a2188", "60e66571", "7c750940", "9c0e7e30", "68b0647a", "230b32d5", "32c3fce4", "d0778dcf",
      "6908287d", "5836c479", "63265ad3", "c4260e00", "4b4a5a46", "332992c9", "0a6869e4", "c8227d6a",
      "2eae6daa", "23d17ae5", "010a98ab", "b3e45a60", "d987c871", "5d09aeee", "b25a6114", "8eaddf4a",
      "3e86a84b", "665f6dca", "0bdc89d6", "0a47646f", "40899828", "5abe49b1", "b53f1d33", "dfcd4983",
      "6a1ac27a", "b7af4824", "37efc22d", "c19180ca", "f375fad3", "3cd3206a", "8b1b6514", "b81d9970",
      "44e85a6e", "8e6a882c", "1b2387cb", "59f7cb7f", "65f7c353", "eeb110ac", "8a636601", "0bd6661d",
      "4963effb", "4e4186e8", "dbd577cf", "600dcd6d", "d61cecac", "0ead9b16", "f61f53eb", "e9e31d7c",
      "bcdc4cdc", "dd57aa81", "bfaba79a", "37954007", "d93b681f", "e3c28f07", "ae84aaab", "445c0b38",
      "8b038469", "31789dce", "8037f00f", "3b03043d", "7753128b", "6b9433aa", "843273c6", "a7c72ede",
      "7f40e388", "5980c7c8", "e9d84a3b", "c2e68230", "21ddf477", "ea25c6e7", "75590b63", "28830f6d",
      "ec95cc65", "db3405cb", "9e6f74a7", "6af0e9d3", "e20fb1ec", "d186b404", "efe72371", "89fe9268",
      "ec534d9a", "98fc55dc", "371e42f8", "b5c86964", "62168c36", "46467d6d", "49662224", "3aef1932",
      "609fd605", "0a9e434c", "1f22fffd", "e3a853a6", "4179400e", "c2caf05e", "387a0567", "481b79b3",
      "a1ddb61a", "9e32b099", "792534b7", "ff5971b1", "26a6f976", "9f586e62", "dab790b1", "b551929b",
      "6ef44195", "7505b56c", "d93cd16e", "aedbeb43", "ee64a128", "2b757d7b", "9edb111b", "a703ba2d",
      "c44200dc", "15a588ca", "502c33c4", "ee17f3e9", "49a2f30a", "d8b8aee8", "0a01a3ae", "41aff583",
      "dbf92727", "72ec4c32", "175e2dfc", "1d510357", "55e1f8b0", "e1910221", "5733b0b2", "2ffaba12",
      "4dc8e875", "29038953", "cbc340f7", "d7bc5428", "fe65e39f", "354db0fa", "366cf2f5", "d2f92f68",
      "682c2e74", "547b3b4f", "5149869a", "ee000643", "ebdc5d23", "730c1d6d", "b1c47ee6", "1b7b6cdf",
      "7edec808", "3924bd12", "5bd85a89", "ba665ecc", "c4399d7d", "dc3978d0", "f18be777", "ea005d43",
      "8ff8fe52", "7f8f6a29", "914e394e", "d057079f", "31135dd0", "31e7fa61", "95981fd7", "daca8ff3",
      "29a9ed1e", "5e823f16", "c635bfce", "7bd70cab", "9495745d", "5cc3fd45", "6ce7f5ef", "4c7aa3e0",
      "05625cc8", "045890a3", "085ea92c", "068a44f8", "23258e9b", "53bf31c5", "d02f86b4", "70f6b2c6",
      "5b276d77", "aa7c6ed8", "7e744668", "bcbd04c5", "6748746b", "da538da5", "55974bfc", "8198b6f9",
      "4fef3cb2", "a6888995", "ae390226", "5780ec61", "3e367ef5", "4a7a5669", "1f1b8339", "b4890031",
      "e5e023f4", "dddcf78e", "9ab2fbe1", "34f4f8d1", "ab554edc", "ae22787e", "21e61661", "6846daa0",
      "f20f135e", "af1dd528", "5c229908", "20673152", "f377744c", "c7435a04", "3324d10c", "617ef241",
      "ca3fbaa4", "deb6b01b", "14a3ff3f", "bd8b0b33", "84dd3101", "664692cd", "82f15a18", "3c2d3247",
      "a103aeb3", "b9e5b7f0", "0185cf35", "757a5140", "6f3c9685", "307aae12", "e3618cff", "3650bd84",
      "2f94c8ed", "ea10691a", "df93ab59", "d0efb690", "a06cf4b1", "410c9688", "60b82edf", "51b98575",
      "761648ed", "3aab781f", "69aba8ec", "21b47096", "6a6ca976", "71c47f2c", "de8e7cf7", "73ddfd77",
      "ee3ce753", "568c05dc", "c6adb61f", "f478eb71", "9f31a430", "fd5bf0d6", "6a0d9316", "f8346955",
      "bbbf74aa", "440f21b5", "8f5d89ca", "cfc99358", "dc47ad14", "8a219fe7", "36150192", "2b9aed2e",
      "aaed2823", "153b68c4", "83f2ed92", "9b672837", "24faf0fd", "272f4a5d", "00f093e8", "586ce838",
      "819ffca3", "db671c49", "5b65483d", "0bd1c3b6", "e4d7cccc", "b503b6a6", "7cc2e807", "cf26690e",
      "9e35dd4c", "d0ea43a2", "68046379", "11c7e8a6", "ec5afb4f", "d54d894e", "76aa22b0", "07a8fc3f",
      "3b034e49", "55059687", "5c5c4adb", "1e85358e", "694e812d", "a3b3c9b3", "fa8bc136", "fdf49d25",
      "77ae2d2f", "0c97e67b", "3dff38cf", "ae9c8ca5", "5c0d45bf", "394d41cf", "1c7095de", "748c09db",
      "d366b733", "831ebc27", "a60f9bdf", "92c24438", "c263f3b1", "a2d8df78", "983274f3", "3762628f",
      "ec052d09", "f29e5ed9", "d8f50e37", "4a95e765", "1cf9f317", "c3ca92c4", "62d57658", "b111485b",
      "94885070", "1ff9e708", "2f181e08", "0e3ae7de", "765b5ccf", "3ca5ef17", "313692b9", "81dab885",
      "5394985b", "6bffcd6f", "c53af0fa", "96bb4afe", "72d1011d", "fc2b3f23", "4a928c03", "c990caca",
      "0c1e899c", "88e09fde", "0a74975a", "cf156245", "d611a4cc", "ee0eb364", "270bc5b2", "34afe584",
      "207f7bb0", "e7f6355e", "96b049f3", "6346a7ec", "30f04137", "10efd780", "6b8b4000", "96fff052",
      "5cd3689a", "9513816e", "86d84d8e", "510da977", "08540b46", "d103b354", "a72cd450", "92c045a2",
      "13f9c9e7", "43156e2a", "dbf587f5", "adab61e4", "2d555cf9", "b9c6b98d", "6e62636d", "0e1fee4c",
      "d3a57ec4", "1c32a431", "bd658ae2", "a06d5a99", "a4c022ea", "d74cde36", "7d33b5ed", "5924f5e5",
      "8df576de", "19794880", "9414175e", "74148737", "f9c7a672", "d1f8a9e3", "7812a06f", "3ce75e1a",
      "355aebec", "ad1f6bf4", "31ce2d00", "7c3d0a32", "23e048e2", "da0b6c8c", "82176980", "e1cb7cf4",
      "f9407053", "8690091a", "23553e5b", "fa417d2a", "4b880ece", "efdb3926", "201b81c5", "210feddf",
      "aa3cfc59", "1c920ae5", "6b871cde", "c584b2fe", "53ebe0cd", "ed9d8a56", "313f6db6", "745010f5",
      "b38c6688", "7cb45c97", "d827f2a4", "5fad2d79", "cf3a071c", "3de877ac", "bb3b15b7", "47e83472",
      "cb92913e", "5117f307", "db36349b", "2361d90d", "c1dd643f", "6f25ef9a", "eb9293c9", "5c63a89d",
      "84ffd2d5", "a8bcc612", "0fad2fa2", "d5730bef", "569340e7", "c91a6fd0", "a4697452", "9c38c562",
      "e33f3c44", "75556889", "2ca50f45", "41d83323", "6e5a7a64", "1bbd3bbb", "ed0911e2", "01349c2c",
      "dbbe318a", "cad4f202", "2ee3da2d", "2e2d6fdf", "aa69eae1", "70f4fda5", "41e6ae66", "93cf2790",
      "d24a0198", "a816bbca", "35a49f09", "420a8ff7", "70f7ecc7", "fbd4cc21", "8cc2d01e", "2d6a9837",
      "5d077ec0", "dabd52b1", "44ec53e2", "ffa3be3c", "1a392ad3", "8883ce9b", "1691d688", "5160843c",
      "9f862f18", "6922a6da", "b971a361", "ce1f5b48", "db6a388d", "a77369b0", "9f2f8c64", "4794c354",
      "89e0d9f2", "33f51296", "1a932267", "48370ad4", "ea52985a", "0215007c", "e4294db3", "bc3483c1",
      "80b43696", "9a7a2ec6", "355526b2", "525c0946", "6bf92816", "37cc3e67", "dab823fe", "1c9f5a51",
      "ae593f6d", "c0f4bcd7", "c1a94f45", "61f63e20", "d9ffec29", "adbb83e7", "22cd443e", "607bdd59",
      "5c41a9bb", "279f79b3", "60879de2", "86d00b35", "088bd019", "479fa198", "438318eb", "01c6d8dc",
      "0d71a64a", "25f9cc3f", "e3f6b0ad", "76082418", "78d644c2", "0567c18f", "5d6e42e8", "e5bb9f0e",
      "24a5289f", "ca5a0bfa", "9f3eb938", "24fb8707", "7a186244", "8ea804ab", "ce5a1a28", "8e9250dd",
      "f0672311", "758372b0", "84cd1343", "b8dfcdcb", "e88d1c46", "fa37e3db", "dffc573e", "a4bdba22",
      "b7378b8b", "c71647de", "76a0905a", "b7106c81", "0d7d84e4", "21ef694e", "cf808413", "372cce8e",
      "f1bf5c46", "bfe90b3d", "3aea00b3", "5914a142", "2883c2db", "1b540aba", "12245250", "64ecc985",
      "97098137", "7e9db13d", "2aad8961", "85b79f68", "0b339424", "b9c696a4", "f1824469", "5910356a",
      "a4865fbb", "6388c02b", "6bc1f43c", "a045b698", "207e3302", "e3d3e20a", "31b1ed76", "66fa2214",
      "5134cb63", "fd6067eb", "6364030d", "66347c3c", "f15cd56a", "bf0db5b7", "13ac0517", "95704bd5",
      "ef0fb83e", "82d76adf", "9ff30de7", "05a7abfb", "b53b7750", "48c1acbe", "9139594c", "3441f103",
      "90683d6b", "d4c0d31d", "979ed82a", "745bc129", "1b124d76", "b6c320a5", "837d32df", "7227eb79",
      "cb49ab49", "f321ee52", "e32775df", "4464bcc3", "0ba84d8e", "c23026dd", "1cb936cc", "1202491e",
      "66693aa5", "09877601", "054ca322", "eaa9d0cf", "1daf86df", "e61bd404", "ca5958c2", "01b82ba2",
      "11f270f1", "caf56d7b", "926fe5b1", "45634b64", "f4f0ee36", "3b912773", "89ed5e42", "ffb7d454",
      "513c35a8", "2daf1132", "99d1c82b", "4e110d96", "72edd8fa", "92f8064a", "5a075c94", "fab60707",
      "696c80b2", "8a0eb553", "88eae7ec", "ead1b106", "22df35bb", "94321a99", "41d628af", "13c331ee",
      "e65b4526", "5e372cc7", "23a152a8", "fd6c9ce8", "e9e614c6", "c5b7e2ca", "691893dd", "b5bce821",
      "47825a42", "b56a8e36", "81135902", "096f3ccd", "638cc992", "dda11e8f", "02f38596", "59dc6da8",
      "d04e25e1", "3e3e2e2b", "01ce5390", "99d8e12e", "e4dc21f9", "06bf85c6", "47114e44", "844c95ae",
      "1b6872a5", "ac650341", "fbfb8a98", "540677b0", "3b8afb35", "be1dbb04", "04591edc", "84d1e7ec",
      "31c87921", "561419c1", "8210c62b", "3e3ae452", "7f4630ee", "645e00d5", "b80180b2", "97aed78b",
      "8bfcadeb", "c05e1522", "2aef3eb9", "f8095c32", "6a191ccf", "e0cfc4d8", "19221cf9", "489eb386",
      "c9e4a734", "96f70365", "0c8b0a06", "b50e0f2d", "913b1f34", "65ea054a", "c2fc6a4e", "f00858e0",
      "e74a1a77", "35140deb", "385c8087", "690ad53a", "9346eb0b", "71176269", "887c2d58", "65da4788",
      "8668cb8b", "52b734a2", "e27b024a", "4e6c73a7", "a0914e43", "dbcd03f2", "55a8ff3c", "4e8fe72a",
      "91b3bea1", "6a916430", "3cab3455", "c1587cb7", "8d20ac0c", "bcf5c620", "9dc184ef", "33ad6be8",
      "a5613a56", "20d2ef09", "ee9cff4a", "323f9966", "049072eb", "cb260706", "17e3af81", "91d7cc2f",
      "31ab5c6d", "25d201ad", "e7bcd44a", "a52560bf", "2685ee04", "a508822f", "a363427c", "f49f41f3",
      "e6ee3dd2", "45f80dc0", "983ee745", "9d1098eb", "c6da06de", "6301d69a", "57938b74", "2d9aeef4",
      "a5c534b4", "dab6b91a", "036cae7b", "f347d46a", "130d155d", "578b8d0f", "e83972ca", "82ba7742",
      "947dece3", "eb971d3d", "0cb20b97", "dd36d9c9", "66a22764", "af32c63d", "3410a2bc", "710aaee3",
      "82bf7b63", "4d16ea3e", "ef4c7af8", "b53364ca", "f201c14c", "9285f279", "6fd39c07", "109d18e6",
      "8bc62137", "a7998f1f", "1e1690d4", "9e623719", "c3b00404", "6b87b817", "daee7dd9", "29b7ed36",
      "83e29008", "157af193", "b359944b", "d0f52e45", "8c037e3b", "7bb1b2a5", "93e7cc73", "497be506",
      "92e9e8d9", "63efa356", "9da9ba8b", "7635a616", "62d1ceb7", "86b08b22", "c299ea62", "90315882",
      "a81e8fa3", "279077dd", "e0f1df84", "f921a9c6", "2739f0c6", "c520935e", "6e651f87", "3446c579",
      "86aa4526", "26c09e39", "aaf3ffee", "917339fc", "41ee8442", "a3fcb95e", "d48dbd74", "4d4b3274",
      "d988b7b1", "2d1e6e4b", "ceb002c2", "164cd4d5", "a6b0f88e", "43e05246", "db5d91ec", "90a6c7fb",
      "4491efb2", "b59ea9a6", "5a16f6e6", "efe79e98", "1b5c1cee", "37b04ea9", "cecc55e5", "ef2828c6",
      "72573b01", "f1601b12", "33e83086", "af5238a8", "ed58f809", "27868b64", "c672b229", "555f88f9",
      "cad949bb", "586fa993", "8766bf7b", "64eeaa11", "0873f5dc", "d172941c", "8c626bdd", "600db0a9",
      "4b756421", "db7d7558", "def049b9", "380795d8", "4914a037", "f9d00121", "d806672f", "a136b3d7",
      "2eadeb29", "820c4475", "dd96b4c3", "b051f465", "62be128e", "dfbbe063", "99a117a7", "a801c09e",
      "e3ce00e8", "a5818aa9", "aa02d60c", "05105a83", "4e058745", "9d9a798c", "ea6efa38", "8d18f5d0",
      "6087a6de", "4a998c0c", "6a0ee78a", "8012fbb8", "3fa92feb", "4809059b", "144ac760", "57e29b6a",
      "1065c5ae", "fc6850c5", "ac07193f", "87397f5c", "844a7ed0", "b889bc9a", "b5146b81", "83af5df8",
      "243cc41c", "9f38099a", "a18e9184", "a5210552", "75e42236", "fbf3c805", "a88af4bf", "b5418dc5",
      "274c800d", "a26ea169", "d13f248a", "eed83eab", "19af2e38", "193b689d", "1ab81f2c", "6c6ba2a5",
      "b833e7f3", "1b17d2ae", "0812d9d0", "6b14b105", "83dad773", "d706c4b3", "d2b9f112", "c091d5fb",
      "1e04cf2b", "90320c99", "97db8114", "971be2b9", "1a0c3e6f", "c599f56c", "28f062a1", "cf9199b6",
      "eb2255a1", "b95adc30", "30a1af00", "ee975923", "d7db9e32", "cfcd223e", "d5865158", "89030d92",
      "a05ad3be", "bf6e26b9", "b9215bdf", "4a67b359", "7fa8ecb4", "076f6ce0", "146cc4e5", "510ba355",
      "9d743198", "e27f856d", "2c8b34f1", "a6179cdd", "c57ff6d7", "8bc855fc", "96f5344c", "dd853dd0",
      "668e7fbc", "b9b28312", "6c5b7f5d", "fa918d52", "30dcf80e", "4aaff511", "ef1a27cf", "37d0a2c9",
      "320097ca", "4fdff545", "711d4d3d", "15b455e5", "df0a6d63", "65ff340f", "2279defc", "c5e34e39",
      "97dada59", "396782d3", "ede1b690", "98ab694a", "d0abc069", "4626cb4e", "b7e28010", "56f12a17",
      "b7b70df2", "ab687f7d", "d6a3345d", "53be58d7", "3552fd8e", "73787387", "b096fe62", "2b5ab61a",
      "6de85f18", "ec9d3e77", "d73994fc", "8e1ae728", "5b8457e8", "154ff728", "d327b1de", "64cfae12",
      "034d69f1", "47104a3b", "c3d514be", "2d3c49a4", "f851c584", "951676be", "062a56ab", "c5ea2b96",
      "d224628e", "30524e1a", "047f87eb", "fc1c4b60", "863f1fff", "00bf9035", "896d22fd", "c5324ec0",
      "8739103e", "f22f5162", "226704a4", "c7a5f089", "3d2d3dc9", "6e925c2e", "8a7f8d5b", "76534ce1",
      "ac48f900", "468d331b", "a651c062", "0aed56f3", "fe9b2048", "4d1df574", "5435932f", "9e246aef",
      "4e63de06", "eee1bb1c", "1afe9617", "7d67626b", "6a387ee4", "42e891ae", "c670d04f", "7a539f80",
      "27987423", "6a1fc200", "8c1f3753", "4deda6f1", "f070d23b", "b12915f5", "4c039c8b", "4f0b75ff",
      "bd80259a", "78eace9b", "224ea584", "b84c33f2", "b331d904", "a81faacc", "beaaa7ab", "58bad545",
      "13205671", "e204d1e7", "8dcf2b70", "5928b1b7", "355bc269", "241b3805", "be62ff98", "318aad80",
      "b20ffac9", "0fdbcf30", "263af16f", "aae3c071", "6959c0f0", "2661f6a6", "2ca2a769", "93d52de4",
      "ba380c59", "0de77bb0", "868397b6", "db1f9d14", "41ba0541", "69b885b5", "32578f26", "f24f78fd",
      "a9441f01", "a71fc9d5", "afb06e6f", "e4f0c0a7", "8d55fc89", "70a1a423", "e804ef04", "4ef561fa",
      "9d8b9d94", "060e0e49", "6ef6fa55", "c17373b2", "f34b3eae", "e2d78bd2", "29eccb17", "4a627ea4",
      "d48daa09", "b698215c", "2bfe2262", "8644bea2", "d12f8019", "baf07717", "218bf959", "eb51fd2b",
      "2cf1c799", "eeaea3b6", "d9d95148", "a7d87e9e", "a23c6a84", "bb2ad64c", "bfaef597", "d5ff4902",
      "14648069", "fda26768", "ea3affef", "0a1d07f6", "508bff3b", "4bde10d0", "08b99f99", "9d1bb347",
      "80c85d47", "f16accfe", "1dfe3bdd", "90502995", "9ebd4bea", "41f650f4", "30e3d503", "b173c3f9",
      "0873b1ac", "63deb182", "9b555d00", "46a048bc", "0756bae8", "27808c14", "ffb977d4", "3f36ada3",
      "051661c0", "ce5ca4f4", "639bb8df", "bd442b34", "2d35b854", "819c217e", "65d46b66", "d77b0661",
      "fa46dce4", "e14a5a3b", "a28f530a", "08e713b0", "e12ed8b9", "752a7e29", "ed40a76c", "c7cf951b",
      "f613931a", "cd7a0322", "6b075afe", "3ebd89d0", "21cfecc4", "df808117", "85fa4296", "26fa692c",
      "e2ae24f3", "3cd2e979", "93250ab4", "ac793aa2", "a9e1c3c2", "a50a4bb4", "46d40f44", "c72ecd03",
      "e5f8a2db", "8c8b8b59", "da8052e0", "dd45e944", "3f751588", "297cc841", "7b60f282", "5e0c02d6",
      "5e9d30c1", "b3834245", "642c8b53", "5ef600b8", "eecfa513", "22eae075", "8b8055e7", "c1f7cac9",
      "7a237baf", "b38ea98d", "82fc3f25", "d93dcd95", "3ccfd42a", "3280a566", "daefe4cf", "12601977",
      "c349a503", "5f48091f", "2c974405", "f70bde0b", "187c495f", "e7cc2701", "28844a10", "0e269e19",
      "dd8be957", "8781b227", "58045a81", "5dd32213", "22178722", "4adfb30f", "a91f0990", "7134ca7f",
      "f93184f5", "02eda6a3", "9e62c961", "93a94467", "624ed27c", "9fd734f8", "a5405c46", "6b9dee37",
      "d371a904", "854d3987", "1bfd50ae", "0e0030d1", "0ab13a91", "5425be2e", "02fd6f59", "0ce2899f",
      "c6ac5a3b", "6082f35c", "fdbc95a1", "ded32a29", "17683acc", "1ec6934e", "cf3c3099", "697580b1",
      "eb58863a", "3aa13eae", "100fa109", "b694b163", "eb20574e", "991487f8", "07849b25", "a028aae2",
      "3e6cd19b", "ca1097db", "874cca93", "2a5fb0c3", "ba8c1649", "ba11a6b3", "c1c8d4fb", "29a28ce9",
      "81c1a70f", "2d96f6d6", "32d61c3a", "a2de73c0", "14d83c49", "c343d816", "ad45e518", "ca48da44",
      "d7469ec4", "ff4d3c99", "b3efc08a", "888e2d82", "24c531df", "e321989e", "f91a79d5", "44107605",
      "018fbd7e", "3c5ce776", "19e07609", "0a59f231", "4eb4119b", "c82fa03a", "92296e87", "95fe0c96",
      "5373b2d4", "9616fe99", "f294aacb", "578b38bc", "54de9b25", "b5fdb8b4", "79a57e63", "5bf23a29",
      "460a4610", "3dcb5d53", "7a56177b", "2b9fe20f", "f910623f", "7f5e8642", "6fdcefe3", "8fa2df1c",
      "e8c27655", "2a7f658e", "4def8132", "6fb33b7a", "ee542990", "df3c73b5", "7c5519fe", "52296197",
      "1686fa0b", "f4153383", "9059a1a0", "86cd2101", "5f44d7cd", "b6c7dcbf", "47157470", "fc16489f",
      "7769042f", "534bd4a7", "977e79c2", "94436889", "5cba4403", "61efa5cf", "f79bb6b8", "72ae0322",
      "5f6b7104", "9328b121", "0fc79246", "cdde2e05", "c20451f7", "2c0b4a5a", "d1fc3e4c", "ccafb075",
      "d8cbb072", "f1df41e9", "6cd3976b", "0421809b", "28d0f7eb", "88e11262", "e7b4d558", "91341ff8",
      "d51a0023", "f8201cf6", "d400bfb8", "d9315501", "f1ab751d", "5c12f10e", "bf1028d5", "6f05f8a3",
      "cc146b69", "39dd7b81", "848a2df1", "87231d84", "1a6c21e8", "e9654d66", "211ee35b", "d912a2cf",
      "c993751f", "3d77f59f", "d07e427c", "6f29c670", "079a34d2", "5b81f590", "2389f30f", "7f7b07ee",
      "85e410b7", "1cab2a4d", "816d7069", "34a4d662", "56485db5", "12f2c0c0", "0fe7e9ec", "95e1feb6",
      "88aebce1", "ee0019cf", "afb828ca", "7f624c5f", "716b7654", "b0e5269b", "cccc7f6d", "870962e8",
      "8de4402c", "3e254fc3", "74624bf1", "5951e887", "6ff9a650", "1e18f26c", "151a917a", "ff55e10c",
      "632c4f96", "4e767763", "1db57f86", "2ef0fc7a", "b3d3f76d", "afd85e7a", "b4e38f5a", "35074b36",
      "3213a32f", "5af67a12", "765582e5", "311967c7", "2f6b37dc", "c5f2d165", "09eaabed", "e4bfdc99",
      "fec5dcc7", "45809474", "a49f01ec", "7a87a5c3", "085b4731", "991212ee", "0c67d794", "40c6debd",
      "fa12ef86", "114ed466", "4f6f82fe", "dcfd1748", "7f26d24b", "633d7aa6", "55405296", "c36de7c7",
      "4dcadefe", "46772247", "59fc0140", "da960948", "553f8a8d", "948c5cbd", "befecc42", "85a4a8de",
      "c4472f0a", "c1f37ef4", "3cb6ed35", "8f5ba95b", "e1e837f5", "ae389afc", "3211af05", "49aebcfa",
      "e09c6c65", "1fd2214f", "bbc024b9", "4b84b43d", "11f3127d", "a0733d1c", "de9e0d10", "aaff6f58",
      "50d83fcf", "a013aeb2", "a5926a5a", "f2d7bdcd", "da2bcea6", "80d9e2ba", "8c6274b9", "a0f43b62",
      "3a981b5f", "5fd942ee", "38dd789d", "269c0865", "4f8662e5", "90209ab4", "166d4f55", "fd31b74e",
      "c64e0b90", "c8aba0c6", "812ab0d6", "6692a16d", "1b5b503d", "378a5657", "5636b896", "b092b9be",
      "49d99ef3", "22ef2428", "32164fa2", "5ca4b87b", "4168f66b", "351a6216", "4a395316", "cbf2235f",
      "40c60376", "abe6f760", "49f683b2", "e5460395", "93c68ff7", "a549911d", "0c92430c", "c2808f78",
      "314ef62a", "2468f08e", "2c08e80b", "9fa95488", "d39d6f11", "35ce42ce", "5f4a0192", "b5f6c25c",
      "e5c54fd7", "70344814", "7d426ff8", "6ed1550f", "7b3fa583", "b895316a", "f9fb7d5f", "def2f34e",
      "d8a029a4", "79bc2c86", "9099ae8b", "4662d830", "39fecf72", "166b34e0", "ab93eca4", "d287ee64",
      "9ba763ca", "b6152cd9", "7352e6af", "6a23e5ec", "5c1e8fcf", "dc7f967c", "00f168f5", "d3450b78",
      "dfa64f78", "e28a26cb", "527d98ed", "77ad7dae", "0ded02c0", "19d2cb23", "91c6cd29", "5966842f",
      "e783ff77", "896648a4", "bcded3d8", "b87be296", "f902ad95", "972aeb6b", "885314f9", "9fb4252f",
      "a6c22645", "77cb1955", "c8869329", "f5144faa", "d2f599bf", "0df1618d", "230f3869", "4fbed612",
      "5391833e", "f329873e", "1b9b16b5", "81b15b35", "381453f6", "806140fd", "d0483ae1", "b0256e84",
      "a62aa422", "ad78de29", "91bb9289", "ab4fb2e5", "7e4768a6", "1452a203", "b3a611b3", "bf49abcf",
      "05e16c45", "d8e9719e", "058d7854", "fd6c3fb7", "e74e9e76", "a46d3b57", "2c5a373c", "44266bd3",
      "90ed2bb0", "0cfe1a01", "46310385", "7e4505ec", "d6acc0a4", "4ada9606", "ee1b2a89", "b45291cb",
      "3a15d759", "65f106c5", "4d0361f2", "1df1b965", "3945f825", "2b23f744", "3a8bcfc7", "3c4216a8",
      "3c5c3266", "d288c19a", "8986362a", "6ea77060", "870cccf7", "cd8d1c0d", "8e7706d7", "e237cd48",
      "a93203fe", "5a350d9b", "25fb64b7", "34b84eea", "a9b7d5aa", "6c91154f", "59a1f167", "68d37ad4",
      "11d8adf3", "bc72dd54", "8f2539d1", "f1564f7a", "4c2164f8", "5c516a08", "441b03b8", "1c5b7f4f",
      "7b1e2439", "62b9b142", "aefbaf9b", "2fb4568d", "78abb19f", "b219a4d8", "a7ededb7", "745db3d0",
      "4cdb0832", "bd410f00", "df29b5de", "db8bbece", "fc7d6e89", "9a3bf303", "269b9d54", "34d96c07",
      "09f2a4ec", "5a3e1f31", "e87b14ef", "8ce19b88", "0b1096a8", "90ed9971", "b81d9250", "205e14e9",
      "f5fe3220", "b60a3f3f", "894c1ca2", "06d61982", "b84f4459", "7132f75d", "7a13da30", "9eef57a8",
      "c7eebbc8", "e98a6ae7", "e50177c3", "89566cbd", "b99569b4", "9bd37a38", "61f4a7d2", "39e660d1",
      "1d698a09", "ac4ac7e4", "8d6a14b4", "35bb44af", "8c831794", "4dd78ba8", "7d82359c", "392ab374",
      "57961823", "243b4ce8", "caa9bce4", "a867bc5e", "6008fed6", "e49186fd", "e8f97b32", "1958a1d2",
      "ee8fba37", "9009de5e", "5a682695", "b00eef36", "2ddf9a73", "600f7a4d", "f81342a2", "5c051537",
      "42ad16ea", "b0ef060c", "3fa0e292", "5939378d", "18b2e348", "1d7e4087", "f84c8511", "22398ee5",
      "11a7f8b6", "96e5d0d9", "a368b83c", "eee2f5d1", "25f55fba", "1c1d7ce1", "d23d9a6d", "dbfba642",
      "32559b9b", "33ab0ffd", "66d7c47e", "d5eb15e5", "1bb780cc", "e8a71e45", "d5b81d9b", "e57bb2f3",
      "d9b0fca8", "56bec464", "b6e5cef4", "9a6c1c63", "327a935a", "2d50ec23", "22085f12", "718fd2ab",
      "bd971295", "8bcc0133", "ea6015d0", "e5fbea23", "aad6a17a", "f0605f1e", "74341c86", "7fb309bc",
      "becbcb80", "ed6d7c19", "4ea3e661", "0f667879", "9d93209b", "b44dccfc", "65ebfb10", "f1475610",
      "95325a65", "9d28e3d2", "e470fd99", "26b55974", "a0a805d2", "6ac85815", "2cb7e2ab", "8e53a63c",
      "c797ac7b", "3ff2641c", "9a9f0baa", "00f06eba", "fd8db295", "62fa23ec", "27c47c74", "a9014205",
      "72229849", "1128bfb6", "4053964f", "b1d1e967", "73fb4709", "24bcf3db", "1963370d", "fb642e7b",
      "93e4e012", "c9dfd792", "4c7c49b5", "20c3e8df", "3f741575", "58684ee7", "ca6970e2", "6b85adab",
      "cd9d1c6b", "5a022690", "bc48a072", "6a7f11a9", "87817572", "a1830737", "c80df636", "e19a6790",
      "918b4d28", "db2fca47", "d701d7a1", "553be394", "adbeb829", "95850a1b", "f04384e5", "c9d2b743",
      "a8a14b3c", "94d735d1", "346784ba", "3f313206", "aa6e3dc5", "a921c75e", "7f26f0c0", "4db6d869",
      "221380a1", "c4058581", "1907e2b7", "449df47c", "fd904f4e", "b90179d1", "60196938", "ccdbd00c",
      "aefef735", "16ed39a2", "723999e0", "636a8a5b", "19ef29bd", "51cefe28", "087c2abe", "203eb450",
      "2f8be930", "40d0f97b", "04e10e7b", "11ccd6c5", "b8778f67", "f03f5a78", "cbdfb8f0", "9a8e2d41",
      "e3925941", "13c286d0", "b050ab3f", "479f6afe", "b4b3b353", "82b216f2", "bfff7706", "fb348419",
      "4ef44057", "05af862b", "10a6458e", "21f592a3", "2cade910", "9134ae2a", "37c6b6ab", "2ac05582",
      "83e02a0e", "d7d64fe9", "9b053a32", "bc40dd61", "e78e9916", "278e5be9", "ac44b026", "082c4dba",
      "2e5521d9", "547d6c7f", "624036e1", "74cf785d", "c77e0637", "864c6aa8", "ddc64a6e", "8fe0b07c",
      "85715ffa", "a39ff1f6", "3f952330", "a060f2a4", "440f4958", "fa6cf49a", "6d05bc3b", "37f689f6",
      "91a19026", "ee2e4e6e", "2604a66b", "67135701", "ed91043e", "b52fef5d", "d3963bd3", "b56a9029",
      "e68e5852", "18036d9c", "055e57e9", "b35c2503", "4beecdf0", "14aef4fb", "a37b0aa0", "362e27ff",
      "6005ab1b", "859d560b", "61e4e83f", "d284fbfd", "93a02bd0", "51d12ed9", "1eaecf52", "355dcdc8",
      "bf054d03", "783c6867", "abf25ec1", "34237735", "0f50edef", "e41e2dc2", "1a5d331d", "165ef5bc",
      "9e10b000", "6d231145", "4bac8bcf", "64decc48", "09592a82", "eda498f9", "5327d15f", "38a2d0a4",
      "b9098a7f", "4a002e6a", "c66b991b", "ff4c942f", "c4d9d439", "ab6dd37f", "f4ea85c0", "6e913f86",
      "209fff78", "276aa47a", "5d43ed63", "190cb216", "9a10cf5e", "d3a421a9", "4c46eff1", "5f798fac",
      "b5f41c8d", "13c7bbb4", "3361c7ab", "f68276ff", "0b06890e", "eba18072", "527879e8", "3b36e373",
      "d1a3eee7", "883746fe", "bcc49cda", "e9e545b0", "7be9d298", "68518777", "7b8045c0", "9b85eede",
      "4466a728", "77b17762", "42685fbf", "a2db4f26", "f37d8a56", "6fae2c5e", "4f59b136", "5f52713d",
      "3e3d5939", "3bc65817", "d5e7ecda", "7ebe475b", "6b64bc19", "b3dd10da", "7d907108", "bf1856d6",
      "71783f35", "5442045f", "7ca38f93", "776631fd", "72d34b59", "077afdd5", "cb07f02e", "c140e2f9",
      "32e6a338", "e27e25b1", "fd7e5100", "8037efb5", "9c3942e0", "04a6bd98", "246d590e", "c39f9097",
      "5b67b622", "7f5d145c", "d75caae0", "94ff3f1d", "9a7d2723", "9816e6bc", "cfa6f7cf", "7ab5e1c6",
      "2a3ea563", "5c8f868c", "8f9020af", "90f30c0b", "f369a21b", "a552b362", "32bec578", "a2673884",
      "2c12b4c2", "76667cf0", "cbdfdc25", "abdf13d6", "9c574546", "32c9dd57", "a0c9a33e", "cb261c80",
      "6a04999c", "b83cb769", "38b64540", "bc8781eb", "9acb5a20", "df995a18", "7034a39e", "68d61289",
      "19a11d26", "74af882c", "afb155dc", "b605d410", "59914b83", "eb56e97e", "d00cc912", "e289ec28",
      "4db4191f", "04ac6f24", "9d1ad797", "8bb34b96", "80e778fb", "a2417f17", "bab74765", "d8991a46",
      "6dfab407", "0958c155", "c9ee676a", "ab776c71", "bddf25f4", "b25e7fe8", "f8be05f2", "fad33bf1",
      "93ce0eb8", "27515ea7", "f74ddb57", "66631c84", "bc066f35", "c9ac469c", "f31e7338", "84ce9e8f",
      "e189deb4", "66d9fa1f", "dfba1e2a", "4bfc467a", "9acdcfb8", "eb9602f0", "53a0db17", "c62bf02b",
      "955445ab", "2acc240d", "64b7b883", "fdb4e40f", "c6c451f4", "dce3c78f", "a4ce55e8", "90bd5060",
      "f512deaa", "05532abd", "62cf9a09", "912e1eaf", "a65c51a3", "4d5993cb", "73437f94", "3e78b8d3",
      "fc45a352", "ea862f9f", "1f08252d", "139f3e56", "49554f9a", "b45e3cdd", "1df4c353", "b30f9caf",
      "8c035670", "c8922f1c", "44688eda", "bef3caa3", "d4606820", "c8baa32d", "60ee9296", "6c27e03f",
      "5ac59d55", "8701863b", "adf149e0", "78bb2dfa", "7043f65b", "ca064aa6", "15d22ac3", "4a57133a",
      "7ca7a378", "3ffb1104", "6b4c7fe9", "4a62fadb", "59b9d828", "2f36a6f1", "ca23068b", "f1923882",
      "eea9f171", "208763c6", "b00906b9", "786d1d43", "a748926a", "baf36d52", "27a9f2a6", "25b06f2a",
      "fa47adc4", "1cfbafd0", "1bcbd1a8", "b95bfe12", "3c08e32d", "942a2cc8", "35d54663", "afb60337",
      "bd344bbd", "55c522b8", "c48bf11d", "3517952d", "2061215b", "579d6466", "edf89dce", "1a9a7ab8",
      "9a6762cb", "c56f8ffe", "cb8ce36b", "01a92c89", "79be6e9b", "7fa2e131", "231f7a2c", "73ffe197",
      "4fe5633f", "2fa90764", "203cf811", "2be3ab47", "5bb7188d", "f32caabe", "82452563", "2f29ef61",
      "a6c01295", "245b83b9", "a2a5a7e7", "84a42e30", "1bcce7c8", "88529768", "81958f26", "6d6217e6",
      "437cb339", "f995e76c", "4a391f51", "c73715c1", "8f468c04", "2cfd554a", "dd07132f", "87c2260c",
      "495f3bfd", "bc8a42c3", "c3facb2f", "ca0f1265", "213e1227", "1dfc4c9d", "020ee1a1", "29e711d3",
      "1f5c21e4", "a4abc5ea", "620c894d", "cf1df35b", "df62d1aa", "35a08aed", "9cfabecc", "98b29f99",
      "01718d1c", "1292e554", "d463df52", "383b6346", "6998cf5e", "f903e9b4", "3ca3fb7b", "4936f025",
      "a0dc21a9", "709efbb8", "e9afa2b0", "21f9e1f9", "4696598f", "9383c312", "abf4c2a4", "79cd59b7",
      "8490e97a", "7876aab1", "c88a7209", "d53d9c97", "05f8334b", "201b757e", "059534cd", "8fc93690",
      "c4312208", "1e0a114b", "3d1dd1ba", "9fb09248", "895455ae", "f3230697", "feb43470", "1529948d",
      "cbdbdeda", "4406dbbf", "e64410ec", "47569240", "634b8042", "c9b9b508", "16150660", "97a705d1",
      "3f228e92", "25a25f5b", "a41e76fb", "64bf3387", "3c862038", "f5094d2f", "561ab3a0", "e85f2936",
      "16a7de13", "ea6d3469", "5b4037b0", "06e378db", "56f68e0a", "ddd16084", "070ae318", "9ae62121",
      "e691aa96", "15836d78", "4edd3f55", "27289dc1", "aff0e5f5", "926c1cc3", "97301d22", "2da4150f",
      "6d79a2df", "c2e7f982", "009fc1df", "9f210100", "f12fa650", "453ee706", "5eb937a2", "fe554005",
      "fc5a5986", "5878773d", "3ab72b0d", "b6e7c8c2", "19a552fc", "ff993ac0", "e4d17e39", "57ef6358",
      "dfe66e45", "1c127bdc", "05f797e4", "d7f4dc58", "5bf4a2b4", "ce61394f", "91c5789f", "a079c9e0",
      "f56700b5", "d1841f7f", "7f074f41", "1a80523d", "b5e68dd1", "8ed5142f", "302c904b", "d9ac6da6",
      "6d4316ad", "2305723a", "f2d3595d", "473c2134", "3677b788", "fadbd7c3", "97e6876e", "86cd73fd",
      "fd8ba48d", "1f1b603d", "a4ebac38", "6237e210", "0fffb6ed", "6ebcc845", "318d53a7", "0de868b8",
      "323c333b", "6f534747", "67ea9722", "c158bc47", "dabc4003", "0d968416", "a8848327", "583e2110",
      "28d1b64b", "df3337d6", "5b796463", "19bfa5da", "e0c4a8d2", "1c139362", "8f2c5dfd", "a9cb9640",
      "7c4d8fe6", "834746a3", "2f159548", "cd1051fb", "84a40c36", "0eed771c", "fcf7bc8f", "9ef556c0",
      "0b4917e7", "910edd27", "eef6a018", "87dd8d33", "15db4360", "18461cc7", "3daa3419", "44f35914",
      "42ef94fc", "a1f4b00e", "33aa2f88", "7a65356e", "b7c1c964", "fe4be135", "4be67a56", "eec6a299",
      "49d38930", "a865dae8", "abf1a161", "d99b09d7", "b6f152a1", "fda8097d", "a9044c4c", "e2dc545e",
      "07680620", "3583c526", "b3af0fd9", "ccd44171", "14c1ee25", "f41f8a3a", "55158712", "d938ada1",
      "ac13d226", "c436746e", "1bd393e1", "f6ff3add", "9aa8f19d", "0a5e5e7e", "1c0fce29", "73764a82",
      "b0d4ac11", "99367a33", "3f28c06c", "b9fa9168", "1ac6df8e", "1a506e3f", "557ea97e", "dfb8ab2f",
      "21615aa1", "0634542b", "16433d79", "a4563826", "548c970e", "2f37cb76", "4580d3ae", "5822bfce",
      "ee8c0030", "136b258f", "dae68d89", "8cafd445", "630d4f11", "53e3d7c8", "0e2aedbd", "43e70f1e",
      "2926a1e5", "7d37237b", "58ed0872", "11d07dba", "5f298eb0", "424a0d97", "003b6783", "14aad4ef",
      "12d37b9e", "980e8d39", "433949c5", "267b349e", "73ca31c5", "bce7997c", "78ebfacc", "55818cb6",
      "757d4675", "f68b534e", "8f5530d5", "408e85ef", "c7a8bba7", "5111ea80", "d0d67e1d", "d1203c91",
      "c453277d", "b9dd911b", "dc13bdf7", "490ecfc6", "d9b7c2c4", "34488c64", "378a7ac1", "ad0e68e3",
      "44d72adc", "e147a6b6", "066f671a", "ce59fe16", "8fe5f2b5", "38984f0a", "3d82655d", "56de458a",
      "7eea816f", "1ee2f93f", "16b8e82c", "0e6fcfd0", "f7bb2e48", "b699c1a2", "0e2df877", "555e038f",
      "ad308398", "348ef898", "8eceeb51", "14b59f94", "7240ec69", "f2a8dfe5", "2b067e33", "27885853",
      "b8f9e73e", "7acee84d", "0a64f5ca", "a1c02a28", "f9bc4f3d", "7fbde00d", "08959b7c", "dd7337c9",
      "b5be9c35", "6cd7ae18", "3b4d8893", "2b2c53c4", "7bcefab6", "81e24c48", "fac35c9f", "685a14b2",
      "6e90365d", "952da799", "003d74f7", "a7a70468", "f177bb01", "54785f3f", "92b4ec66", "3e2ea183",
      "8f1b285b", "e0999dec", "5c3bb203", "6b2049b0", "4f80a957", "b0f5ca47", "b974a926", "98ab3fca",
      "143d9699", "158b7f42", "ecde0510", "e3adddcf", "114eb39f", "bc3c65af", "951b2b55", "9b0a7eed",
      "8fc8911e", "44f8e173", "a6b671f0", "02177e0c", "c30e4c1f", "0f52f049", "7bf716c3", "8ed9ca00",
      "59a0124d", "36b45c05", "8ae9e7cb", "ebc53b03", "9a1260c5", "8cf6618f", "a0e406d4", "35456df2",
      "f151cc44", "417ed8e4", "18518040", "6481ba5a", "ebdd251a", "563bf2be", "bcc51148", "2e8c1efb",
      "32725909", "62ac8658", "cad7bf18", "2e766984", "b18adbfa", "1d71b3d1", "5a014271", "6e89b7a3",
      "6214b571", "d63942d7", "a1c1d941", "e0380468", "dca4d126", "9894d06e", "22eac562", "cd4191fc">>

\* (concatenation with the empty tuple makes TLC tabulate the texts once)
ParamStrs == [i \in 1..NumPoints |-> StrParams(PointAt(i))] \o <<>>

md5_hex8(text) == Md5Table[CHOOSE i \in 1..NumPoints : ParamStrs[i] = text]

(***************************************************************************)
(* The Verilog templates.  A text is a sequence of items; an item is a     *)
(* module definition (its name, parameters, ports and the modules it       *)
(* instantiates), a comment or a stretch of literal text.                  *)
(***************************************************************************)
Item(kind, name, params, ports, insts, notes) ==
    [kind |-> kind, name |-> name, params |-> params, ports |-> ports,
     insts |-> insts, notes |-> notes]

ModuleDef(name, params, ports) == Item("module", name, params, ports, <<>>, <<>>)

Comment(text) == Item("comment", text, <<>>, <<>>, <<>>, <<>>)

Literal(text) == Item("text", text, <<>>, <<>>, <<>>, <<>>)

Inst(module, name, conns) == [module |-> module, name |-> name, conns |-> conns]

generate_register_file_verilog(params) ==
    ModuleDef("reg_file",
              << <<"NUM_REGS", params.num_regs>>, <<"REG_WIDTH", 64>> >>,
              <<"clk", "we", "waddr", "raddr1", "raddr2", "wdata", "rdata1", "rdata2">>)

generate_decoder_verilog_swapped(params) ==
    IF params.decoder_type = "hardwired"
    THEN ModuleDef("decoder_microcoded", <<>>,
                   <<"instr", "clk", "micro_addr", "micro_we">>)
    ELSE ModuleDef("decoder_hardwired", <<>>,
                   <<"instr", "opcode", "dest_reg", "src1_reg", "mode", "imm">>)

generate_decoder_verilog(params) ==
    IF params.decoder_type = "hardwired"
    THEN ModuleDef("decoder_hardwired", <<>>,
                   <<"instr", "opcode", "dest_reg", "src1_reg", "mode", "imm">>)
    ELSE ModuleDef("decoder_microcoded", <<>>,
                   <<"instr", "clk", "micro_addr", "micro_we">>)

generate_alu_verilog(params) ==
    IF params.exec_units = "single_alu"
    THEN ModuleDef("alu", <<>>, <<"op", "a", "b", "result", "zero_flag">>)
    ELSE ModuleDef("agu_alu_separate", <<>>,
                   <<"op", "a", "b", "is_memory_op", "result", "addr_calc", "zero_flag">>)

generate_memory_interface_verilog(params) ==
    IF params.memory_type = "simple"
    THEN ModuleDef("memory_simple", <<>>, <<"clk", "addr", "wdata", "we", "rdata">>)
    ELSE ModuleDef("memory_cached", <<>>,
                   <<"clk", "addr", "wdata", "we", "rdata", "hit">>)

\* the list generate_top_level_verilog builds before rendering the template
verilog_parts(params) ==
    <<generate_register_file_verilog(params),
      generate_decoder_verilog(params),
      generate_alu_verilog(params),
      generate_memory_interface_verilog(params)>>

(***************************************************************************)
(* top_template.  In the f-string the fields written with single braces    *)
(* are substituted ({num_regs}, {pipeline_depth}, {params['decoder_type']},*)
(* {params['memory_type']}, the joined reg_names); the fields written with *)
(* doubled braces ({{params}}, {{chr(10).join(verilog_parts)}},            *)
(* {{pipeline_depth}}) are an escaped brace each and come out as the       *)
(* literal text between single braces.                                     *)
(***************************************************************************)
top_template(params) ==
    LET reg_names == PySliceTo(REG_NAMES, params.num_regs)
    IN  <<Comment("// Top-level micro-x86-64 core"),
          Comment("// Parameters: {params}"),
          Literal("{chr(10).join(verilog_parts)}"),
          Item("module", "micro_x86_core",
               << <<"NUM_REGS", params.num_regs>>,
                  <<"PIPELINE_DEPTH", params.pipeline_depth>> >>,
               <<"clk", "reset", "instr", "pc_out">>,
               <<Inst("reg_file", "rf",
                      <<"clk", "we", "waddr", "raddr1", "raddr2", "wdata", "rdata1", "rdata2">>),
                 Inst("decoder_" \o params.decoder_type, "dec",
                      <<"instr", "opcode", "dest_reg", "src1_reg", "mode", "imm">>),
                 Inst("alu", "alu_inst", <<"op", "a", "b", "result", "zero_flag">>),
                 Inst("memory_" \o params.memory_type, "mem_inst",
                      <<"clk", "addr", "wdata", "we", "rdata">>)>>,
               <<"// Pipeline registers for {pipeline_depth} stages (simplified)",
                 "reg [63:0] pipeline_regs [" \o StrInt(params.pipeline_depth) \o "][/* width */];",
                 "// Register names for simulation: " \o JoinStr(", ", reg_names)>>)>>

\* os.path.join(output_dir, f"micro_x86_core_{md5(str(params))[:8]}.v"), output_dir = '.'
artifact_filename(params) ==
    "./micro_x86_core_" \o md5_hex8(StrParams(params)) \o ".v"

\* open(filename, 'w').write(text): the file is created or replaced
write_file(fs, filename, text) ==
    [n \in DOMAIN fs \cup {filename} |-> IF n = filename THEN text ELSE fs[n]]

(***************************************************************************)
(* generate_top_level_verilog: no field of params is checked; the file     *)
(* system after the call (fs) and the file name returned (val).            *)
(***************************************************************************)
generate_top_level_verilog(fs, params) ==
    LET parts == verilog_parts(params)
        filename == artifact_filename(params)
    IN  [val |-> filename, fs |-> write_file(fs, filename, top_template(params))]

(***************************************************************************)
(* hash(text) % 100.  CPython keys its string hash per process             *)
(* (PYTHONHASHSEED); row h + 1 of the table holds the values under key h   *)
(* for the texts of HashedStrings, which are str() of every num_regs,      *)
(* pipeline_depth and addressing_modes value a DesignPoint or a lexicon    *)
(* entry can hold.                                                         *)
(***************************************************************************)
HashedStrings ==
    <<"2", "3", "4", "6", "8", "[1]", "[2]", "[3]", "[1, 2]", "[1, 3]", "[2, 1]", "[2, 3]", "[3, 1]", "[3, 2]", "[1, 2, 3]", "[1, 3, 2]", "[2, 1, 3]", "[2, 3, 1]", "[3, 1, 2]", "[3, 2, 1]">>

PyHashTable ==
    <<<<85,82,68,62,63,33,88,8,8,95,27,89,13,17,66,90,59,6,37,57>>,
      <<70,82,20,65,59,62,72,72,4,72,7,66,68,63,22,63,23,40,95,46>>,
      <<85,19,58,22,38,84,93,45,33,54,53,10,22,33,17,80,34,36,77,89>>,
      <<83,53,8,45,9,29,23,55,31,88,91,87,83,15,44,42,8,68,24,2>>,
      <<40,14,24,12,94,0,84,30,29,87,6,35,27,5,31,19,84,95,28,87>>>>

py_hash_mod100(h, text) ==
    PyHashTable[h + 1][CHOOSE i \in 1..Len(HashedStrings) : HashedStrings[i] = text]

\* str(value) of the value stored under key k of a params or target dict
PyStr(k, v) ==
    IF k = "addressing_modes" THEN StrIntList(v)
    ELSE IF k \in {"num_regs", "pipeline_depth"} THEN StrInt(v)
    ELSE v

Abs(x) == IF x < 0 THEN 0 - x ELSE x

(***************************************************************************)
(* similarity_search.                                                      *)
(***************************************************************************)
EmptyDict == [k \in {} |-> 0]

DictSet(d, k, v) == [x \in DOMAIN d \cup {k} |-> IF x = k THEN v ELSE d[x]]

\* for k, v in LEXICON[word].items(): target_params[k] = v
RECURSIVE DictUpdate(_, _)
DictUpdate(d, items) ==
    IF items = <<>> THEN d
    ELSE DictUpdate(DictSet(d, items[1][1], items[1][2]), Tail(items))

\* the first loop: words outside the lexicon add nothing, later words override
RECURSIVE target_params(_, _)
target_params(d, query_words) ==
    IF query_words = <<>> THEN d
    ELSE LET word == query_words[1]
         IN  target_params(IF word \in DOMAIN LEXICON
                           THEN DictUpdate(d, LEXICON[word]) ELSE d,
                           Tail(query_words))

RECURSIVE SumOver(_, _, _, _)
SumOver(keys, h, gen_params, target) ==
    IF keys = {} THEN 0
    ELSE LET k == CHOOSE x \in keys : TRUE
         IN  Abs(py_hash_mod100(h, PyStr(k, gen_params[k]))
                 - py_hash_mod100(h, PyStr(k, target[k])))
             + SumOver(keys \ {k}, h, gen_params, target)

\* the inner loop: only the keys of target_params that are keys of gen_params count
distance(h, gen_params, target) ==
    SumOver(DOMAIN target \cap DOMAIN gen_params, h, gen_params, target)

\* the loop over seeds: each candidate is sampled through the shared generator
\* (evals lists the (seed, DesignPoint) of each seed_to_params call made)
RECURSIVE score_loop(_, _, _, _, _, _)
score_loop(st, h, seeds, target, results, evals) ==
    IF seeds = <<>> THEN [val |-> results, st |-> st, evals |-> evals]
    ELSE Bind(<<seed_to_params(st, seeds[1]), results, evals>>, LAMBDA b :
              score_loop(b[1].st, h, Tail(seeds), target,
                         Append(b[2], <<seeds[1], distance(h, b[1].val, target)>>),
                         Append(b[3], <<seeds[1], b[1].val>>)))

\* list.sort(key=lambda x: x[1]): ascending, equal keys keep their order
RECURSIVE insert_sorted(_, _)
insert_sorted(sorted, x) ==
    IF sorted = <<>> THEN <<x>>
    ELSE IF sorted[Len(sorted)][2] <= x[2] THEN Append(sorted, x)
    ELSE Append(insert_sorted(SubSeq(sorted, 1, Len(sorted) - 1), x),
                sorted[Len(sorted)])

RECURSIVE sort_by_distance_from(_, _)
sort_by_distance_from(sorted, rest) ==
    IF rest = <<>> THEN sorted
    ELSE Bind(insert_sorted(sorted, rest[1]),
              LAMBDA s : sort_by_distance_from(s, Tail(rest)))

sort_by_distance_reversed(results) ==
    LET s == sort_by_distance_from(<<>>, results)
    IN  [i \in 1..Len(s) |-> s[Len(s) + 1 - i]]

sort_by_distance(results) == sort_by_distance_from(<<>>, results)

similarity_search(st, h, seeds, query_words, max_results) ==
    Bind(target_params(EmptyDict, query_words), LAMBDA target :
    Bind(score_loop(st, h, seeds, target, <<>>, <<>>), LAMBDA scored :
        [val |-> PySliceTo(sort_by_distance(scored.val), max_results),
         st |-> scored.st, evals |-> scored.evals]))

(***************************************************************************)
(* Process state and the records the runs keep.                            *)
(***************************************************************************)
NoRet == [op |-> "none", args |-> <<>>, val |-> <<>>, evals |-> <<>>]

NoInput == [op |-> "none", args |-> <<>>]

SeqsUpTo(S, n) == UNION {[1..k -> S] : k \in 0..n}

\* `random` is seeded from OS entropy at import: any state; the interpreter
\* draws its string-hash key at start-up
InitProcess(keys, hashkeys) ==
    /\ rng \in {[key |-> s, pos |-> 0] : s \in keys}
    /\ hashseed \in hashkeys
    /\ first = EmptyDict
    /\ ret = NoRet
    /\ files = EmptyDict
    /\ generated = {}

\* first[s]: the point the first evaluation of seed s returned; stale: another
\* seed has been evaluated since the latest evaluation of s; again: s has been
\* evaluated once more after such an evaluation of another seed
MarkStale(fst, s) ==
    [x \in DOMAIN fst |-> IF x = s THEN fst[x] ELSE [fst[x] EXCEPT !.stale = TRUE]]

RECURSIVE RecordEvals(_, _)
RecordEvals(fst, evals) ==
    IF evals = <<>> THEN fst
    ELSE LET s == evals[1][1]
             seen == IF s \in DOMAIN fst
                     THEN [fst EXCEPT ![s].again = @ \/ fst[s].stale, ![s].stale = FALSE]
                     ELSE DictSet(fst, s, [point |-> evals[1][2], stale |-> FALSE,
                                           again |-> FALSE])
         IN  RecordEvals(MarkStale(seen, s), Tail(evals))

(***************************************************************************)
(* Sequential calls: one action per public function, each the whole call.  *)
(***************************************************************************)
SeedToParams(s) ==
    \E r \in {seed_to_params(rng, s)} :
        /\ rng' = r.st
        /\ ret' = [op |-> "seed_to_params", args |-> <<s>>, val |-> r.val,
                   evals |-> << <<s, r.val>> >>]
        /\ first' = RecordEvals(first, << <<s, r.val>> >>)
        /\ UNCHANGED <<hashseed, files, generated, input, th>>

SimilaritySearch(seeds, query_words, max_results) ==
    \E r \in {similarity_search(rng, hashseed, seeds, query_words, max_results)} :
        /\ rng' = r.st
        /\ ret' = [op |-> "similarity_search",
                   args |-> <<seeds, query_words, max_results>>,
                   val |-> r.val, evals |-> r.evals]
        /\ first' = RecordEvals(first, r.evals)
        /\ UNCHANGED <<hashseed, files, generated, input, th>>

\* main's generation path: the params just sampled from a seed are rendered
GenerateFromSeed ==
    /\ ret.op = "seed_to_params"
    /\ LET r == generate_top_level_verilog(files, ret.val)
       IN  /\ files' = r.fs
           /\ ret' = [op |-> "generate_top_level_verilog", args |-> <<ret.val>>,
                      val |-> r.val, evals |-> <<>>]
           /\ generated' = generated \cup
                  {[seed |-> ret.args[1], params |-> ret.val, filename |-> r.val]}
    /\ UNCHANGED <<rng, hashseed, first, input, th>>

(***************************************************************************)
(* Spec: seed_to_params and similarity_search called in any order.         *)
(***************************************************************************)
BetweenQuery == <<"compact">>

Init ==
    /\ InitProcess(Seeds, 0..(NumHashSeeds - 1))
    /\ input = NoInput
    /\ th = <<>>

Sample == \E s \in Seeds : SeedToParams(s)

Search ==
    \E seeds \in SeqsUpTo(Seeds, MaxCands), n \in 0..MaxLimit :
        SimilaritySearch(seeds, BetweenQuery, n)

Next == Sample \/ Search

Spec == Init /\ [][Next]_vars

(***************************************************************************)
(* SpecGen: main's generation path, seed after seed.                       *)
(***************************************************************************)
GenSeeds == SeedSet(NumGenSeeds)

InitGen ==
    /\ InitProcess({SeedCatalog[1]}, {0})
    /\ input = NoInput
    /\ th = <<>>

SampleGen == \E s \in GenSeeds : SeedToParams(s)

NextGen == SampleGen \/ GenerateFromSeed

SpecGen == InitGen /\ [][NextGen]_vars

(***************************************************************************)
(* SpecCompose: generate_top_level_verilog applied to one DesignPoint, in  *)
(* or out of the catalog.                                                  *)
(***************************************************************************)
InitCompose ==
    /\ InitProcess({SeedCatalog[1]}, {0})
    /\ input \in {[op |-> "generate_top_level_verilog", args |-> <<p>>] : p \in Points}
    /\ th = <<>>

Compose ==
    /\ ret.op = "none"
    /\ LET r == generate_top_level_verilog(files, input.args[1])
       IN  /\ files' = r.fs
           /\ ret' = [op |-> "generate_top_level_verilog", args |-> input.args,
                      val |-> r.val, evals |-> <<>>]
    /\ UNCHANGED <<rng, hashseed, first, generated, input, th>>

NextCompose == Compose

SpecCompose == InitCompose /\ [][NextCompose]_vars

(***************************************************************************)
(* SpecSearch: similarity_search applied to one candidate list, query and  *)
(* limit.                                                                  *)
(***************************************************************************)
\* the words of the lexicon and one word outside it
QueryWords == DOMAIN LEXICON \cup {"turbo"}

Limits == (0 - 1)..SearchMaxLimit

InitSearch ==
    /\ InitProcess({SeedCatalog[1]}, 0..(NumHashSeeds - 1))
    /\ input \in {[op |-> "similarity_search", args |-> <<c, q, n>>] :
                    c \in SeqsUpTo(Seeds, SearchMaxCands),
                    q \in SeqsUpTo(QueryWords, SearchMaxQuery),
                    n \in Limits}
    /\ th = <<>>

RunSearch ==
    /\ ret.op = "none"
    /\ SimilaritySearch(input.args[1], input.args[2], input.args[3])

NextSearch == RunSearch

SpecSearch == InitSearch /\ [][NextSearch]_vars

(***************************************************************************)
(* SpecConc: two callers in one process, uncoordinated.  Caller 1 runs     *)
(* seed_to_params(s1); caller 2 runs seed_to_params(s2) or a               *)
(* similarity_search.  A caller's steps are the reseed and the seven draws *)
(* of each seed_to_params call it makes, every one on the module-level     *)
(* generator; what it computes between draws is local and joins the draw   *)
(* before it.                                                              *)
(***************************************************************************)
Callers == {1, 2}

\* the default max_results
DefaultLimit == 5

Caller(kind, seeds, query_words, max_results) ==
    [kind |-> kind, seeds |-> seeds, query |-> query_words, limit |-> max_results,
     i |-> 1, pc |-> "seed", drawn |-> <<>>, results |-> <<>>, rets |-> <<>>,
     out |-> <<>>]

InitConc ==
    /\ InitProcess({SeedCatalog[1]}, {0})
    /\ input = NoInput
    /\ \E s1 \in Seeds :
         \E c2 \in {Caller("seed_to_params", <<s>>, <<>>, 0) : s \in Seeds}
                   \cup {Caller("similarity_search", c, BetweenQuery, DefaultLimit) :
                           c \in SeqsUpTo(Seeds, ConcMaxCands) \ {<<>>}} :
            th = <<Caller("seed_to_params", <<s1>>, <<>>, 0), c2>>

\* one draw of caller t: the value joins its locals, the generator moves on
Draw(t, at, r, next) ==
    /\ th[t].pc = at
    /\ rng' = r.st
    /\ th' = [th EXCEPT ![t].drawn = Append(@, r.val), ![t].pc = next]
    /\ UNCHANGED <<hashseed, first, ret, files, generated, input>>

StepSeed(t) ==
    /\ th[t].pc = "seed"
    /\ rng' = random_seed(rng, th[t].seeds[th[t].i])
    /\ th' = [th EXCEPT ![t].drawn = <<>>, ![t].pc = "num_regs"]
    /\ UNCHANGED <<hashseed, first, ret, files, generated, input>>

StepNumRegs(t) == Draw(t, "num_regs", choice(rng, NUM_REGS_OPTIONS), "randint")

StepRandint(t) == Draw(t, "randint", randint(rng, 1, Len(ADDRESSING_MODES)), "sample")

StepSample(t) ==
    /\ th[t].pc = "sample"
    /\ Draw(t, "sample", sample(rng, ADDRESSING_MODES, th[t].drawn[2]), "decoder")

StepDecoder(t) == Draw(t, "decoder", choice(rng, DECODER_TYPES), "pipeline")

StepPipeline(t) == Draw(t, "pipeline", choice(rng, PIPELINE_DEPTHS), "exec")

StepExec(t) == Draw(t, "exec", choice(rng, EXEC_UNITS), "memory")

\* the last draw; the call returns, a search scores the candidate and goes on
\* to the next one or sorts and cuts its results
StepMemory(t) ==
    /\ th[t].pc = "memory"
    /\ LET c == th[t]
           r == choice(rng, MEMORY_TYPES)
           seed == c.seeds[c.i]
           p == MakeParams(c.drawn[1], c.drawn[3], c.drawn[4], c.drawn[5],
                           c.drawn[6], r.val)
           results == IF c.kind = "similarity_search"
                      THEN Append(c.results,
                                  <<seed, distance(hashseed, p,
                                                   target_params(EmptyDict, c.query))>>)
                      ELSE c.results
           last == c.i = Len(c.seeds)
       IN  /\ rng' = r.st
           /\ th' = [th EXCEPT ![t] =
                  [c EXCEPT !.drawn = <<>>,
                            !.rets = Append(@, <<seed, p>>),
                            !.results = results,
                            !.i = IF last THEN @ ELSE @ + 1,
                            !.pc = IF last THEN "done" ELSE "seed",
                            !.out = IF ~last THEN @
                                    ELSE IF c.kind = "similarity_search"
                                    THEN PySliceTo(sort_by_distance(results), c.limit)
                                    ELSE p]]
    /\ UNCHANGED <<hashseed, first, ret, files, generated, input>>

NextConc ==
    \E t \in Callers :
        \/ StepSeed(t)
        \/ StepNumRegs(t)
        \/ StepRandint(t)
        \/ StepSample(t)
        \/ StepDecoder(t)
        \/ StepPipeline(t)
        \/ StepExec(t)
        \/ StepMemory(t)

SpecConc == InitConc /\ [][NextConc]_vars

(***************************************************************************)
(* Properties of the sampler (Spec).                                       *)
(***************************************************************************)
\* C1: every evaluation of seed_to_params(s), made directly or by a search,
\* returns the DesignPoint the first evaluation of s returned, whatever calls
\* ran before or between.
C1_SameSeedSamePoint ==
    \A i \in 1..Len(ret.evals) :
        ret.evals[i][2] = first[ret.evals[i][1]].point

\* a seed evaluated again after another seed's evaluation reseeded the generator
C1_Witness ==
    /\ ret.op = "seed_to_params"
    /\ first[ret.args[1]].again

NoDuplicates(seq) == \A i, j \in 1..Len(seq) : i # j => seq[i] # seq[j]

ValidSample(p) ==
    /\ InCatalog(p)
    /\ p.instructions = INSTRUCTIONS
    /\ Len(p.addressing_modes) \in 1..3
    /\ SeqToSet(p.addressing_modes) \subseteq SeqToSet(ADDRESSING_MODES)
    /\ NoDuplicates(p.addressing_modes)

\* C2: every point seed_to_params returns has each scalar field in its catalog
\* list, the fixed instruction list, and 1 to 3 distinct addressing modes.
C2_SampleInCatalog ==
    \A i \in 1..Len(ret.evals) : ValidSample(ret.evals[i][2])

\* the empty seed string has been sampled
C2_Witness ==
    /\ ret.op = "seed_to_params"
    /\ ret.args[1] = ""
    /\ Len(ret.val.addressing_modes) = 3

(***************************************************************************)
(* Properties of the composer (SpecCompose, SpecGen).                      *)
(***************************************************************************)
Composed == ret.op = "generate_top_level_verilog"

\* the text of the artifact the last call wrote
Artifact == files[ret.val]

Wrapper(text) ==
    text[CHOOSE i \in 1..Len(text) :
            text[i].kind = "module" /\ text[i].name = "micro_x86_core"]

\* the module the wrapper instantiates under instance name inst
InstModule(text, inst) ==
    LET insts == Wrapper(text).insts
    IN  insts[CHOOSE i \in 1..Len(insts) : insts[i].name = inst].module

\* C4: for a point in the catalog the wrapper instantiates the decoder and the
\* memory module under the names of the definitions the generators select.
C4_DecoderMemoryNames ==
    (Composed /\ InCatalog(ret.args[1])) =>
        /\ InstModule(Artifact, "dec") = generate_decoder_verilog(ret.args[1]).name
        /\ InstModule(Artifact, "mem_inst")
               = generate_memory_interface_verilog(ret.args[1]).name

\* a catalog point with the second variant on both axes has been rendered
C4_Witness ==
    /\ Composed
    /\ InCatalog(ret.args[1])
    /\ ret.args[1].decoder_type = "microcoded"
    /\ ret.args[1].memory_type = "cached"
    /\ InstModule(Artifact, "dec") = "decoder_microcoded"

\* C5: a point with a field outside the catalog is rejected: the call does not
\* return a file name and no file is written.
C5_RejectsOutOfCatalog ==
    (input.op = "generate_top_level_verilog" /\ ~InCatalog(input.args[1])) =>
        (ret.op = "none" /\ DOMAIN files = {})

\* C9: the artifact holds, in this order, the register file, the selected
\* decoder, the selected execution unit, the selected memory interface and the
\* top-level wrapper.
C9_ModulesInOrder ==
    (Composed /\ InCatalog(ret.args[1])) =>
        \E i1, i2, i3, i4, i5 \in 1..Len(Artifact) :
            /\ i1 < i2 /\ i2 < i3 /\ i3 < i4 /\ i4 < i5
            /\ Artifact[i1] = generate_register_file_verilog(ret.args[1])
            /\ Artifact[i2] = generate_decoder_verilog(ret.args[1])
            /\ Artifact[i3] = generate_alu_verilog(ret.args[1])
            /\ Artifact[i4] = generate_memory_interface_verilog(ret.args[1])
            /\ Artifact[i5] = Wrapper(Artifact)

\* C10: the wrapper instantiates the execution unit under the name of the
\* definition generate_alu_verilog selects.
C10_ExecUnitName ==
    (Composed /\ InCatalog(ret.args[1])) =>
        InstModule(Artifact, "alu_inst") = generate_alu_verilog(ret.args[1]).name

SamePoint(p, q) ==
    /\ p.num_regs = q.num_regs
    /\ SeqToSet(p.addressing_modes) = SeqToSet(q.addressing_modes)
    /\ p.decoder_type = q.decoder_type
    /\ p.pipeline_depth = q.pipeline_depth
    /\ p.exec_units = q.exec_units
    /\ p.memory_type = q.memory_type
    /\ p.instructions = q.instructions

\* C6: two seeds whose points agree in every scalar field and in the set of
\* addressing modes get the same artifact file name.
C6_SamePointSameName ==
    \A g, h \in generated :
        SamePoint(g.params, h.params) => g.filename = h.filename

(***************************************************************************)
(* Properties of the search (SpecSearch).                                  *)
(***************************************************************************)
Searched == ret.op = "similarity_search"

\* the DesignPoint field a target key constrains
FieldOf(k) ==
    IF k = "decoder" THEN "decoder_type"
    ELSE IF k = "memory" THEN "memory_type"
    ELSE k

FieldMatches(k, p, target) ==
    IF k = "addressing_modes"
    THEN SeqToSet(p[k]) = SeqToSet(target[k])
    ELSE p[FieldOf(k)] = target[k]

Mismatches(p, target) ==
    Cardinality({k \in DOMAIN target : ~FieldMatches(k, p, target)})

\* C7: each distance is a fixed positive constant times the number of
\* constrained fields the candidate mismatches.
C7_PerFieldMismatchCost ==
    Searched =>
        LET target == target_params(EmptyDict, ret.args[2])
        IN  \E c \in 1..100 :
                \A i \in 1..Len(ret.val) :
                    ret.val[i][2]
                        = c * Mismatches(seed_to_params(rng, ret.val[i][1]).val, target)

Min(a, b) == IF a < b THEN a ELSE b

\* C8: for a limit n >= 0 the result is the first min(n, number of candidates)
\* entries of the candidates in ascending distance, equal distances in input
\* order; with no lexicon word in the query these are the first candidates in
\* input order at distance 0.
C8_StableAscendingPrefix ==
    (Searched /\ ret.args[3] >= 0) =>
        LET seeds == ret.args[1]
            target == target_params(EmptyDict, ret.args[2])
            d == [i \in 1..Len(seeds) |->
                     distance(hashseed, seed_to_params(rng, seeds[i]).val, target)]
                 \o <<>>
            m == Min(ret.args[3], Len(seeds))
        IN  /\ \E perm \in [1..Len(seeds) -> 1..Len(seeds)] :
                  /\ \A i, j \in 1..Len(seeds) :
                         i < j => \/ d[perm[i]] < d[perm[j]]
                                  \/ d[perm[i]] = d[perm[j]] /\ perm[i] < perm[j]
                  /\ ret.val = [i \in 1..m |-> <<seeds[perm[i]], d[perm[i]]>>]
            /\ (\A i \in 1..Len(ret.args[2]) : ret.args[2][i] \notin DOMAIN LEXICON)
                   => ret.val = [i \in 1..m |-> <<seeds[i], 0>>]

\* a search that reordered three candidates, two of them at equal distance,
\* and cut the result short
C8_Witness ==
    /\ Searched
    /\ Len(ret.args[1]) = 3
    /\ ret.args[3] = 2
    /\ Len(ret.val) = 2
    /\ ret.val[1][1] # ret.args[1][1]
    /\ ret.val[1][2] = ret.val[2][2]
    /\ ret.val[1][1] # ret.val[2][1]

(***************************************************************************)
(* Properties of concurrent callers (SpecConc).                            *)
(***************************************************************************)
\* C3: every seed_to_params call a concurrent caller completes returns the
\* point the call returns when it runs alone.
C3_ConcurrentSameAsAlone ==
    \A t \in DOMAIN th :
        \A i \in 1..Len(th[t].rets) :
            th[t].rets[i][2] = seed_to_params(rng, th[t].rets[i][1]).val

====
